---- MODULE Spec2Model ----
(***************************************************************************)
(* Model of the periodic task runner of the allowance backend              *)
(* (backend/src/tasks/mod.rs, backend/src/tasks/allowance.rs) and of the   *)
(* database tables it reads and writes, and of the notifications of the    *)
(* API (backend/src/api/notify/mod.rs) with the handlers that send them.   *)
(*                                                                         *)
(* Several instances of the runner (processes sharing one database) are    *)
(* modelled.  Every database call of a wake cycle is one step, so that the *)
(* calls of different instances interleave.  The specifications of the     *)
(* runner leave the API at rest, and the ones of the API leave the runner  *)
(* absent.                                                                 *)
(***************************************************************************)
EXTENDS Integers, Sequences, FiniteSets, Bags, TLC

(***************************************************************************)
(* Bounds                                                                  *)
(***************************************************************************)
\* The wall clock takes the values 0, TickSecs, ..., MaxTicks * TickSecs.
MaxTicks == 2

\* The counters of the counting test tasks saturate at MaxCount.
MaxCount == 2

\* No more than MaxOverlap run calls of one instance are ever in progress.
MaxOverlap == 2

\* No instance crashes more than MaxRestarts times in all.
MaxRestarts == 1

\* No more than MaxRequests requests are handled by the API in all.
MaxRequests == 2

\* No more than MaxBuffered events wait in the stream of a connection.
MaxBuffered == 2

\* No more than MaxFrames frames are written to a connection.
MaxFrames == 3

\* Granularity of the modelled wall clock, in seconds (half a day).
TickSecs == 12 * 60 * 60

\* The runner instances (processes) that share the database.
Instances == {1, 2}

(***************************************************************************)
(* Time                                                                    *)
(***************************************************************************)
\* ScheduledTask::duration for Daily: Duration::from_secs(24 * 60 * 60).
DaySecs == 24 * 60 * 60

Timestamps == {k * TickSecs : k \in 0..MaxTicks}

\* Days since 1970-01-01 of a timestamp (UTC, Timestamp::now uses Utc::now).
DayNumber(timestamp) == timestamp \div DaySecs

\* The proleptic Gregorian date of a day number, as chrono's Datelike
\* accessors year(), month() and day() give it.
CivilFromDays(days) ==
    LET z   == days + 719468
        era == z \div 146097
        doe == z - era * 146097
        yoe == (doe - doe \div 1460 + doe \div 36524 - doe \div 146096) \div 365
        doy == doe - (365 * yoe + yoe \div 4 - yoe \div 100)
        mp  == (5 * doy + 2) \div 153
        dd  == doy - (153 * mp + 2) \div 5 + 1
        mm  == IF mp < 10 THEN mp + 3 ELSE mp - 9
        yy  == yoe + era * 400 + (IF mm <= 2 THEN 1 ELSE 0)
    IN  [year |-> yy, month |-> mm, day |-> dd]

Weekdays == <<"Mon", "Tue", "Wed", "Thu", "Fri", "Sat", "Sun">>

\* timestamp.0.weekday(): 1970-01-01 is a Thursday.
weekday(timestamp) == Weekdays[((DayNumber(timestamp) + 3) % 7) + 1]

\* The "{:0w}" integer format: at least w digits, padded with zeros.
ZeroPad(n, w) ==
    LET s == ToString(n)
    IN  IF Len(s) >= w THEN s ELSE SubSeq("0000", 1, w - Len(s)) \o s

(***************************************************************************)
(* Tasks                                                                   *)
(***************************************************************************)
\* ScheduledTask::Daily(task)
Daily(name, body) == [kind |-> "Daily", name |-> name, body |-> body, d |-> 0]

\* ScheduledTask::Custom(task, fmt, d); fmt is the closure of the test
\* `triggered` (see CustomFmt).
Custom(name, body, d) ==
    [kind |-> "Custom", name |-> name, body |-> body, d |-> d]

\* Payer::name
PayerName == "allowance-payer"

\* The task lists a runner is built with (Scheduled::new(pool).with(...)):
\* the one of main.rs, the counting task of the tests run_simple and
\* run_concurrently, the two counting tasks of the test run_multiple, a
\* daily payer next to a custom counting task, and no task at all.
TaskLists ==
    { <<Daily(PayerName, "Payer")>>,
      <<Daily("test-task", "TestTask")>>,
      <<Daily("test-task-1", "TestTask"), Daily("test-task-2", "TestTask")>>,
      <<Daily(PayerName, "Payer"), Custom("test-task", "TestTask", TickSecs)>>,
      <<>> }

\* The task lists that two processes run on one database: the one of main.rs,
\* and a single counting task.
SharedTaskLists ==
    { <<Daily(PayerName, "Payer")>>,
      <<Daily("test-task", "TestTask")>> }

\* ScheduledTask::duration, in seconds.
duration(t) == IF t.kind = "Daily" THEN DaySecs ELSE t.d

\* The closure handed to ScheduledTask::Custom by the test `triggered`:
\* format!("test-{}", SystemTime::now() / t).  It reads the system clock
\* `sysnow`, not the timestamp of the run.
CustomFmt(d, sysnow) == "test-" \o ToString(sysnow \div d)

\* Display for ScheduledTaskTimestamp with the year and the month only.
ScheduledTaskTimestamp_month(t, timestamp, sysnow) ==
    IF t.kind = "Daily"
    THEN LET c == CivilFromDays(DayNumber(timestamp))
         IN  ZeroPad(c.year, 4) \o "-" \o ZeroPad(c.month, 2)
    ELSE CustomFmt(t.d, sysnow)

\* Display for ScheduledTaskTimestamp(task, timestamp): the period label.
\* `sysnow` is the system clock at the moment of the call.
ScheduledTaskTimestamp(t, timestamp, sysnow) ==
    IF t.kind = "Daily"
    THEN LET c == CivilFromDays(DayNumber(timestamp))
         IN  ZeroPad(c.year, 4) \o "-" \o ZeroPad(c.month, 2)
                 \o "-" \o ZeroPad(c.day, 2)
    ELSE CustomFmt(t.d, sysnow)

(***************************************************************************)
(* Users, sessions, events and notification targets                        *)
(***************************************************************************)
\* A UID wraps a 128-bit Uuid; the ones of the model are small numbers.
NilUID == 0

HexDigits == "0123456789abcdef"

\* Uuid::to_simple().encode_lower: the number as w lower-case hexadecimal
\* digits, without hyphens.
RECURSIVE encode_lower(_, _)
encode_lower(n, w) ==
    IF w = 0 THEN ""
    ELSE encode_lower(n \div 16, w - 1)
             \o SubSeq(HexDigits, (n % 16) + 1, (n % 16) + 1)

\* Display for UID: 32 hexadecimal digits.
to_string(uid) == encode_lower(uid, 32)

\* A row of the table Users (email is left out).
User(uid, role, name, family_uid) ==
    [uid |-> uid, role |-> role, name |-> name, family_uid |-> family_uid]

\* The families and users of api::tests::populate (one parent, two
\* children), the child of another family of the test forbidden_parent, and
\* a second parent.
family == 241

other_family == 242

parent == User(161, "Parent", "User Name", family)

parent2 == User(162, "Parent", "Second Parent", family)

child0 == User(192, "Child", "Child 1", family)

child1 == User(193, "Child", "Child 2", family)

other_child == User(209, "Child", "Other Child", other_family)

\* The parent of the other family of the tests forbidden_parent.
other_parent == User(210, "Parent", "Other User", other_family)

\* The contents of the table Users when the API starts.
Populations ==
    { {parent, child0, child1, other_child},
      {parent, parent2, child0, other_child} }

\* A row of the table Passwords (the hash is left out).
Password(user_uid) == [user_uid |-> user_uid]

\* The passwords of users: each has one.
PopulatedPasswords(users) == {Password(u.uid) : u \in users}

\* A row of the table Allowances.
Allowance(uid, user_uid, amount, schedule) ==
    [uid |-> uid, user_uid |-> user_uid, amount |-> amount,
     schedule |-> schedule]

\* A row of the table Invitations (email and time are left out); the
\* allowance is Option<u32> and Option<Schedule>.
Invitation(uid, role, name, allowance_amount, allowance_schedule, family_uid) ==
    [uid |-> uid, role |-> role, name |-> name,
     allowance_amount |-> allowance_amount,
     allowance_schedule |-> allowance_schedule, family_uid |-> family_uid]

\* A row of the table Requests (description, url and time are left out).
RequestRow(uid, user_uid, name, amount) ==
    [uid |-> uid, user_uid |-> user_uid, name |-> name, amount |-> amount]

\* The requests of api::tests::populate that the children of the model
\* own: the first is the second child's, the second the first child's.
request0 == RequestRow(1, child1.uid, "name0", 3)

request1 == RequestRow(2, child0.uid, "name1", 6)

\* The uid of no request.
UnknownRequest == 9

\* The contents of the table Requests when the API starts: the requests of
\* the users there are.
PopulatedRequests(users) ==
    {r \in {request0, request1} : \E u \in users : u.uid = r.user_uid}

\* session::State, the session cookie of a user: it is made at login and
\* presented by the client with every request.
State(u) == [user_uid |-> u.uid, family_uid |-> u.family_uid, role |-> u.role]

NoState == [user_uid |-> NilUID, family_uid |-> NilUID, role |-> "none"]

\* The cookies clients hold: one for every user there is or was.
Sessions == {State(u) : u \in {parent, parent2, child0, child1, other_child}}

\* notify::Event, with the fields `user` (a user's uid) and `by` where the
\* variant has them.
Event(type, user, by) == [type |-> type, user |-> user, by |-> by]

NoEvent == Event("none", NilUID, NilUID)

\* An Err item of a subscription stream.
StreamError == Event("Err", NilUID, NilUID)

\* serde_json::ser::to_string(&event), for #[serde(tag = "type")].
to_json(event) ==
    "{\"type\":\"" \o event.type \o "\""
        \o (IF event.user = NilUID THEN ""
            ELSE ",\"user\":{\"uid\":\"" \o to_string(event.user) \o "\"}")
        \o (IF event.by = NilUID THEN ""
            ELSE ",\"by\":\"" \o to_string(event.by) \o "\"")
        \o "}"

\* The variants of notify::Notify.
Member(event, user) ==
    [kind |-> "Member", event |-> event, uid |-> user, family |-> NilUID]

Family(event, family_uid) ==
    [kind |-> "Family", event |-> event, uid |-> NilUID,
     family |-> family_uid]

MemberAndParents(event, uid, family_uid) ==
    [kind |-> "MemberAndParents", event |-> event, uid |-> uid,
     family |-> family_uid]

Parents(event, family_uid) ==
    [kind |-> "Parents", event |-> event, uid |-> NilUID,
     family |-> family_uid]

NoNotify ==
    [kind |-> "none", event |-> NoEvent, uid |-> NilUID, family |-> NilUID]

\* The requests the API gets: the handler, the session cookie, the path
\* parameters, for family/add the role of the new user, for request/grant
\* whether the request of the path exists and is one of the user of the
\* path, and for session/password whether current_password verifies against
\* the stored hash.
Requests ==
    [op : {"family/add"}, state : Sessions, user_uid : {NilUID},
     family_uid : {family, other_family}, role : {"Parent", "Child"},
     found : {TRUE}, request_uid : {0}, cost : {<<>>}, invitation_uid : {NilUID}]
    \cup [op : {"family/remove"}, state : Sessions,
          user_uid : {parent.uid, child0.uid, other_child.uid},
          family_uid : {family, other_family}, role : {"none"},
          found : {TRUE}, request_uid : {0}, cost : {<<>>}, invitation_uid : {NilUID}]
    \cup [op : {"request/make"}, state : Sessions,
          user_uid : {child0.uid, child1.uid}, family_uid : {NilUID},
          role : {"none"}, found : {TRUE}, request_uid : {0},
          cost : {<<>>}, invitation_uid : {NilUID}]
    \cup [op : {"request/grant"}, state : Sessions,
          user_uid : {child0.uid, other_child.uid}, family_uid : {NilUID},
          role : {"none"}, found : {TRUE},
          request_uid : {request1.uid, UnknownRequest}, cost : {<<>>}, invitation_uid : {NilUID}]
    \cup [op : {"session/logout"}, state : Sessions,
          user_uid : {NilUID}, family_uid : {NilUID}, role : {"none"},
          found : {TRUE}, request_uid : {0}, cost : {<<>>}, invitation_uid : {NilUID}]
    \cup [op : {"session/password"}, state : Sessions,
          user_uid : {NilUID}, family_uid : {NilUID}, role : {"none"},
          found : BOOLEAN, request_uid : {0}, cost : {<<>>}, invitation_uid : {NilUID}]

\* UID::new() in the handler of the n-th request: a uid no row has.
NewUID(n) == 176 + n

\* The tables other than Users as a transaction that is not open sees
\* them.
NoTables ==
    [Requests |-> {}, Transactions |-> EmptyBag, Invitations |-> {},
     Passwords |-> {}, Allowances |-> EmptyBag]

\* No request is being handled.  `tx` holds the rows of Users as the
\* handler's transaction sees them, and `db` those of the other tables.
NoHandler ==
    [op |-> "none", state |-> NoState, user_uid |-> NilUID,
     family_uid |-> NilUID, role |-> "none", found |-> TRUE,
     request_uid |-> 0, cost |-> <<>>, invitation_uid |-> NilUID,
     new_uid |-> NilUID, pc |-> "idle", tx |-> {}, db |-> NoTables,
     notify |-> NoNotify, recipients |-> {}, pending |-> {},
     uid |-> NilUID, name |-> ""]

\* The web socket connections of clients.
Connections == {1}

\* A connection that has not been made.  `session` is the cookie of the
\* request that opens the connection.
NoSocket ==
    [state |-> "none", session |-> NoState, topic |-> "", stream |-> <<>>,
     frames |-> <<>>]

\* The streams that listen calls return, by the order of the calls.
Listeners == {1, 2}

\* No Secret has been converted.
NoSecret ==
    [pc |-> "none", key |-> <<>>, source |-> "",
     result |-> [kind |-> "none", key |-> <<>>, error |-> ""]]

\* A listen call that has not been made.
NoStream ==
    [state |-> "none", channel |-> "", subscribed |-> "", since |-> 0,
     inbox |-> <<>>, yielded |-> <<>>]

\* No Notifier is configured.
NoNotifier == [driver |-> "none", channel_prefix |-> "", events |-> <<>>]

\* No call of the Notifier has returned.
NoResult == [call |-> "none", value |-> "none"]

(***************************************************************************)
(* State                                                                   *)
(***************************************************************************)
VARIABLES
    clock,          \* the system clock (Utc::now), in seconds
    tasks,          \* Scheduled.tasks, the same list in every instance
    Allowances,     \* committed rows of the table Allowances (a bag)
    ScheduledTasks, \* committed rows of the table ScheduledTasks (a bag)
    Transactions,   \* committed rows of the table Transactions (a bag)
    actor,          \* per instance: the life cycle of the Scheduled actor
    runner,         \* per instance: Scheduled.runner, the armed interval
    cycles,         \* per instance: the Scheduled::run calls in progress
    log,            \* per instance: the messages logged since the last
                    \* handler of the actor began
    counter,        \* per TestTask name: the task's counter (saturating)
    restarts,       \* the number of crashes so far
    Users,          \* committed rows of the table Users (uid is the key)
    handler,        \* the API request being handled, and its transaction
    requests,       \* the number of requests handled so far
    response,       \* what the last handler answered
    published,      \* the events the channel engine has accepted for
                    \* broadcast since the last request came in (a bag)
    warnings,       \* what the API has logged since the last request
    sockets,        \* per connection: the NotificationSocket
    notifier,       \* the notifications::Notifier of the process
    sent,           \* the send calls the backend has served, in order
    streams,        \* per listener: the stream a listen call has returned
    result,         \* what the last call of the Notifier returned
    RequestRows,    \* committed rows of the table Requests (uid is the key)
    Invitations,    \* committed rows of the table Invitations
    Passwords,      \* committed rows of the table Passwords
    secret,         \* a configuration::Secret and its conversions
    outbox          \* the emails the email sender has accepted, in order

\* The variables of the task runner without the tables the API writes too.
tvars == <<clock, tasks, ScheduledTasks, actor, runner, cycles, log, counter,
           restarts>>

\* The variables of the task runner, and those of the API.
svars == <<clock, tasks, Allowances, ScheduledTasks, Transactions, actor,
           runner, cycles, log, counter, restarts>>

nvars == <<Users, handler, requests, response, published, warnings, sockets>>

\* The variables of the notification backend.
bvars == <<notifier, sent, streams, result>>

\* The tables only the API writes.
dvars == <<RequestRows, Invitations, Passwords>>

\* The variables of the configuration and of the email sender.
evars == <<secret, outbox>>

vars == <<svars, nvars, bvars, dvars, evars>>

\* Option::None is the empty sequence and Some(x) is <<x>>.
None == <<>>

Some(x) == <<x>>

\* The state of a transaction that is not open (after commit or rollback,
\* which sqlx issues when a Transaction is dropped uncommitted).
NoTransaction ==
    [read |-> FALSE, stale |-> FALSE, wrote |-> FALSE,
     wST |-> EmptyBag, wTx |-> EmptyBag]

\* No notification backend is looked at: it has no listener and has served
\* no call.
NoBackend ==
    /\ notifier = NoNotifier
    /\ sent = <<>>
    /\ streams = [l \in Listeners |-> NoStream]
    /\ result = NoResult

\* The tables only the API writes are empty.
NoRows ==
    /\ RequestRows = {}
    /\ Invitations = {}
    /\ Passwords = {}

\* A fresh Scheduled::run(timestamp) call.
NewCycle(kind, timestamp) ==
    [kind |-> kind, timestamp |-> timestamp, pc |-> "acquire", i |-> 0,
     errors |-> <<>>] @@ NoTransaction

\* The names of the counting tasks of a task list.
TestTasks(ts) == {ts[j].name : j \in {n \in DOMAIN ts : ts[n].body = "TestTask"}}

Init ==
    /\ clock = 0
    /\ tasks \in TaskLists
    /\ Allowances = SetToBag(
          { [uid |-> "a1", user_uid |-> "u1", amount |-> 42,
             schedule |-> "Thu"],
            [uid |-> "a2", user_uid |-> "u2", amount |-> 10,
             schedule |-> "Fri"] })
    /\ ScheduledTasks = EmptyBag
    /\ Transactions = EmptyBag
    /\ NoRows
    /\ actor \in [Instances -> {"created", "absent"}]
    /\ actor[1] = "created"
    /\ actor[2] = "created" => tasks \in SharedTaskLists
    /\ runner = [r \in Instances |-> None]
    /\ cycles = [r \in Instances |-> <<>>]
    /\ log = [r \in Instances |-> {}]
    /\ counter = [n \in TestTasks(tasks) |-> 0]
    /\ restarts = 0
    /\ Users = {}
    /\ handler = NoHandler
    /\ requests = 0
    /\ response = "none"
    /\ published = EmptyBag
    /\ secret = NoSecret
    /\ outbox = <<>>
    /\ warnings = {}
    /\ sockets = [c \in Connections |-> NoSocket]
    /\ NoBackend

(***************************************************************************)
(* Helpers                                                                 *)
(***************************************************************************)
Min(a, b) == IF a < b THEN a ELSE b

SeqMax(s) == CHOOSE x \in {s[j] : j \in DOMAIN s} :
                \A y \in {s[j] : j \in DOMAIN s} : y <= x

SeqMin(s) == CHOOSE x \in {s[j] : j \in DOMAIN s} :
                \A y \in {s[j] : j \in DOMAIN s} : x <= y

RemoveAt(s, k) == SubSeq(s, 1, k - 1) \o SubSeq(s, k + 1, Len(s))

\* The rows of a table that satisfy a WHERE clause, as a bag.
Where(table, Test(_)) ==
    [row \in {x \in BagToSet(table) : Test(x)} |-> table[row]]

\* The open transactions (run calls) of all instances.
Slots == {<<r, k>> \in Instances \X (1..MaxOverlap) : k \in DOMAIN cycles[r]}

(***************************************************************************)
(* The database: SQLite transactions                                       *)
(***************************************************************************)
\* Another connection holds the write lock: SQLite admits one writer.
OtherWriter(r, k) ==
    \E s \in Slots : s # <<r, k>> /\ cycles[s[1]][s[2]].wrote

\* A statement that writes succeeds only when no other connection is writing
\* and the transaction's snapshot is still the committed state (otherwise
\* SQLITE_BUSY).
CanWrite(r, k) == ~OtherWriter(r, k) /\ ~cycles[r][k].stale

\* An error path that leaves the transaction's writes on the connection.
RollbackKeepsWrites(c) == [c EXCEPT !.read = FALSE, !.stale = FALSE]

\* Dropping a Transaction without commit rolls it back.
Rollback(c) == NoTransaction @@ c

\* CHECK with its two parameters bound in the wrong order.
CHECK_swapped(table, task, last_run) ==
    Where(table, LAMBDA row : row.task = last_run /\ row.last_run = task)

\* Scheduled::CHECK: the rows for a task and a label.
CHECK(table, task, last_run) ==
    Where(table, LAMBDA row : row.task = task /\ row.last_run = last_run)

\* Scheduled::UPDATE: the row inserted for a task, a label and a time.
UPDATE(task, last_run, time) ==
    SetToBag({[task |-> task, last_run |-> last_run, time |-> time]})

\* The SQL of the allowance payer without its WHERE clause.
SQL_unfiltered(allowances, timestamp) ==
    LET Paid(a) == [transaction_type |-> "allowance", user_uid |-> a.user_uid,
                    description |-> "", amount |-> a.amount,
                    time |-> timestamp]
    IN  [row \in {Paid(a) : a \in BagToSet(allowances)} |->
            BagCardinality(Where(allowances, LAMBDA a : Paid(a) = row))]

\* The rows inserted by the SQL of the allowance payer: one per allowance
\* whose schedule is the weekday of the timestamp.
SQL(allowances, timestamp) ==
    LET due == Where(allowances, LAMBDA a : a.schedule = weekday(timestamp))
        Paid(a) == [transaction_type |-> "allowance", user_uid |-> a.user_uid,
                    description |-> "", amount |-> a.amount,
                    time |-> timestamp]
    IN  [row \in {Paid(a) : a \in BagToSet(due)} |->
            BagCardinality(Where(due, LAMBDA a : Paid(a) = row))]

(***************************************************************************)
(* Scheduled::run and Scheduled::check_and_run, one database call a step   *)
(***************************************************************************)
\* The head of `for scheduled_task in self.tasks.iter()`: the next task, or
\* the end of the loop.
NextTask(c) ==
    IF c.i + 1 <= Len(tasks)
    THEN [c EXCEPT !.i = c.i + 1, !.pc = "begin"]
    ELSE [c EXCEPT !.i = c.i + 1, !.pc = "return"]

\* run leaving the loop at the first error (`?` in the loop body).
CollectAndReturn(c) ==
    [c EXCEPT !.errors = Append(c.errors, c.i), !.pc = "return"]

\* What run does with Err(e) from check_and_run: it logs the error, pushes
\* it on errors, and the loop goes on with the next task.
Collect(c) == NextTask([c EXCEPT !.errors = Append(c.errors, c.i)])

\* check_and_run returning the error with its transaction still open.
TaskFailedOpen(c) == Collect(c)

\* check_and_run returned Err(e): the `?` dropped the transaction.
TaskFailed(c) == Collect(Rollback(c))

\* The bookkeeping shared by every step in which check_and_run fails.
Fail(r, k) ==
    /\ cycles' = [cycles EXCEPT ![r][k] = TaskFailed(@)]
    /\ log' = [log EXCEPT ![r] = @ \cup {"Failed to run task"}]
    /\ UNCHANGED <<nvars, bvars, dvars, evars, clock, tasks, Allowances, ScheduledTasks, Transactions,
                   actor, runner, counter, restarts>>

\* self.pool.acquire().await? succeeded.
Acquire(r, k) ==
    /\ cycles[r][k].pc = "acquire"
    /\ cycles' = [cycles EXCEPT ![r][k] = NextTask(@)]
    /\ UNCHANGED <<nvars, bvars, dvars, evars, clock, tasks, Allowances, ScheduledTasks, Transactions,
                   actor, runner, log, counter, restarts>>

\* The pool error pushed like a task error, the loop then running.
NoConnectionCollected(c) == NextTask([c EXCEPT !.errors = <<0>>])

\* What run does when the pool gives no connection: `?` returns the error at
\* once, as MultipleErrors(vec![DatabaseError]) (entry 0 stands for the
\* pool).
NoConnection(c) == [c EXCEPT !.pc = "return", !.errors = <<0>>]

\* self.pool.acquire().await? failed.
AcquireFail(r, k) ==
    /\ cycles[r][k].pc = "acquire"
    /\ cycles' = [cycles EXCEPT ![r][k] = NoConnection(@)]
    /\ UNCHANGED <<nvars, bvars, dvars, evars, clock, tasks, Allowances, ScheduledTasks, Transactions,
                   actor, runner, log, counter, restarts>>

\* connection.begin().await? succeeded.
Begin(r, k) ==
    /\ cycles[r][k].pc = "begin"
    /\ cycles' = [cycles EXCEPT ![r][k].pc = "check"]
    /\ UNCHANGED <<nvars, bvars, dvars, evars, clock, tasks, Allowances, ScheduledTasks, Transactions,
                   actor, runner, log, counter, restarts>>

BeginFail(r, k) ==
    /\ cycles[r][k].pc = "begin"
    /\ Fail(r, k)

\* check with is_some() in place of is_none().
check_is_some(t, table, timestamp, sysnow) ==
    CHECK(table, t.name, ScheduledTaskTimestamp(t, timestamp, sysnow))
        # EmptyBag

\* Scheduled::check: TRUE when the task has no row for the label.
check(t, table, timestamp, sysnow) ==
    CHECK(table, t.name, ScheduledTaskTimestamp(t, timestamp, sysnow))
        = EmptyBag

\* The check made on the connection, outside the transaction.
ObservedOutside(c) == [c EXCEPT !.pc = "task"]

\* The check was made with `&mut transaction`: the transaction has read, and
\* the task is due.
Observed(c) == [c EXCEPT !.pc = "task", !.read = TRUE]

\* self.check(...).await? succeeded.  The read fixes the snapshot of the
\* transaction.  When the task is not due the transaction is dropped.
Check(r, k) ==
    LET c == cycles[r][k]
    IN  /\ c.pc = "check"
        /\ cycles' = [cycles EXCEPT ![r][k] =
              IF check(tasks[c.i], ScheduledTasks, c.timestamp, clock)
              THEN Observed(c)
              ELSE NextTask(Rollback(c))]
        /\ UNCHANGED <<nvars, bvars, dvars, evars, clock, tasks, Allowances, ScheduledTasks, Transactions,
                       actor, runner, log, counter, restarts>>

CheckFail(r, k) ==
    /\ cycles[r][k].pc = "check"
    /\ Fail(r, k)

\* TestTask::run: self.1.fetch_add(1).
fetch_add(name) == [counter EXCEPT ![name] = Min(@ + 1, MaxCount)]

\* task.task().run(&mut transaction, timestamp).await? succeeded.
\* Payer::run executes its INSERT ... SELECT; TestTask::run adds one to its
\* counter and touches no table.
TaskRun(r, k) ==
    LET c == cycles[r][k]
        t == tasks[c.i]
    IN  /\ c.pc = "task"
        /\ IF t.body = "Payer"
           THEN /\ CanWrite(r, k)
                /\ cycles' = [cycles EXCEPT ![r][k] =
                      [c EXCEPT !.pc = "update", !.wrote = TRUE,
                                !.wTx = @ (+) SQL(Allowances, c.timestamp)]]
                /\ UNCHANGED counter
           ELSE /\ cycles' = [cycles EXCEPT ![r][k].pc = "update"]
                /\ counter' = fetch_add(t.name)
        /\ UNCHANGED <<nvars, bvars, dvars, evars, clock, tasks, Allowances, ScheduledTasks, Transactions,
                       actor, runner, log, restarts>>

\* Payer::run failed (SQLITE_BUSY or any other database error).  TestTask::run
\* never fails.
TaskRunFail(r, k) ==
    /\ cycles[r][k].pc = "task"
    /\ tasks[cycles[r][k].i].body = "Payer"
    /\ Fail(r, k)

\* Scheduled::update: the label is computed again, then the row is inserted.
update(c, t, sysnow) ==
    LET last_run == ScheduledTaskTimestamp(t, c.timestamp, sysnow)
    IN  [c EXCEPT !.pc = "commit", !.wrote = TRUE,
                  !.wST = @ (+) UPDATE(t.name, last_run, c.timestamp)]

\* self.update(...).await? succeeded.
Update(r, k) ==
    LET c == cycles[r][k]
    IN  /\ c.pc = "update"
        /\ CanWrite(r, k)
        /\ cycles' = [cycles EXCEPT ![r][k] = update(c, tasks[c.i], clock)]
        /\ UNCHANGED <<nvars, bvars, dvars, evars, clock, tasks, Allowances, ScheduledTasks, Transactions,
                       actor, runner, log, counter, restarts>>

UpdateFail(r, k) ==
    /\ cycles[r][k].pc = "update"
    /\ Fail(r, k)

\* transaction.commit().await? succeeded: the writes of the transaction
\* become the committed state, and every other open snapshot is now old.
Commit(r, k) ==
    LET c == cycles[r][k]
    IN  /\ c.pc = "commit"
        /\ ScheduledTasks' = ScheduledTasks (+) c.wST
        /\ Transactions' = Transactions (+) c.wTx
        /\ cycles' = [q \in Instances |-> [j \in DOMAIN cycles[q] |->
              IF <<q, j>> = <<r, k>> THEN NextTask(Rollback(c))
              ELSE IF cycles[q][j].read
                   THEN [cycles[q][j] EXCEPT !.stale = TRUE]
                   ELSE cycles[q][j]]]
        /\ UNCHANGED <<nvars, bvars, dvars, evars, clock, tasks, Allowances, actor, runner, log, counter, restarts>>

\* transaction.commit().await? failed: nothing of the transaction persists.
CommitFail(r, k) ==
    /\ cycles[r][k].pc = "commit"
    /\ Fail(r, k)

(***************************************************************************)
(* The actor: Actor::started, the interval, supervision                    *)
(***************************************************************************)
\* Duration::mul_f32(0.05), on whole seconds.
mul_f32(d) == (d * 5) \div 100

\* The interval computed by Actor::started:
\* self.tasks.iter().map(|t| t.duration()).max().map(|i| i.mul_f32(0.05)).
interval(ts) ==
    IF ts = <<>> THEN None
    ELSE Some(mul_f32(SeqMax([j \in DOMAIN ts |-> duration(ts[j])])))

\* Actor::started.  With tasks, the first run is made inside started
\* (block_on), before the interval is armed; without, only a warning.
started(r) ==
    /\ actor[r] = "created"
    /\ IF interval(tasks) # None
       THEN /\ actor' = [actor EXCEPT ![r] = "starting"]
            /\ cycles' = [cycles EXCEPT ![r] = <<NewCycle("first", clock)>>]
            /\ log' = [log EXCEPT ![r] = {"Starting scheduled tasks"}]
       ELSE /\ actor' = [actor EXCEPT ![r] = "unscheduled"]
            /\ log' = [log EXCEPT ![r] = {"No scheduled tasks registered"}]
            /\ UNCHANGED cycles
    /\ UNCHANGED <<nvars, bvars, dvars, evars, clock, tasks, Allowances, ScheduledTasks, Transactions,
                   runner, counter, restarts>>

\* The interval closure spawning the run instead of blocking on it.
Spawned(r) == TRUE

\* The actor is free to handle the next interval tick: block_on keeps it in
\* the handler until the run call has returned.
Idle(r) == cycles[r] = <<>>

\* The closure given to context.run_interval: one wake cycle.
run_interval(r) ==
    /\ actor[r] = "running"
    /\ runner[r] # None
    /\ Idle(r)
    /\ Len(cycles[r]) < MaxOverlap
    /\ cycles' = [cycles EXCEPT ![r] = Append(@, NewCycle("tick", clock))]
    /\ log' = [log EXCEPT ![r] = {"Executing scheduled tasks"}]
    /\ UNCHANGED <<nvars, bvars, dvars, evars, clock, tasks, Allowances, ScheduledTasks, Transactions,
                   actor, runner, counter, restarts>>

\* What the caller of run logs for the returned value.
Logged(c) ==
    IF c.errors = <<>> THEN {}
    ELSE IF c.kind = "first"
         THEN {"Failed to execute scheduled tasks first time"}
         ELSE {"Failed to execute scheduled tasks"}

\* Scheduled::run returns: Ok(()) without errors, Err(MultipleErrors(errors))
\* otherwise.  The caller only logs an error.  After the first run, started
\* arms the interval.
Return(r, k) ==
    LET c == cycles[r][k]
    IN  /\ c.pc = "return"
        /\ log' = [log EXCEPT ![r] = @ \cup Logged(c)]
        /\ cycles' = [cycles EXCEPT ![r] = RemoveAt(@, k)]
        /\ IF c.kind = "first"
           THEN /\ runner' = [runner EXCEPT ![r] = interval(tasks)]
                /\ actor' = [actor EXCEPT ![r] = "running"]
           ELSE UNCHANGED <<runner, actor, restarts>>
        /\ UNCHANGED <<nvars, bvars, dvars, evars, clock, tasks, Allowances, ScheduledTasks, Transactions,
                       counter, restarts>>

\* The actor (or its process) dies: what was in memory is gone and the open
\* transactions are rolled back; the committed tables stay.
Crash(r) ==
    /\ actor[r] \in {"starting", "running", "unscheduled"}
    /\ restarts < MaxRestarts
    /\ restarts' = restarts + 1
    /\ actor' = [actor EXCEPT ![r] = "stopped"]
    /\ cycles' = [cycles EXCEPT ![r] = <<>>]
    /\ runner' = [runner EXCEPT ![r] = None]
    /\ UNCHANGED <<nvars, bvars, dvars, evars, clock, tasks, Allowances, ScheduledTasks, Transactions,
                   log, counter>>

\* The actor started without a supervisor: it stays stopped.
Unsupervised(r) ==
    /\ FALSE
    /\ UNCHANGED vars

\* The supervisor starts the actor again (Supervised, Supervisor::start):
\* started will be called on it.
Restart(r) ==
    /\ actor[r] = "stopped"
    /\ actor' = [actor EXCEPT ![r] = "created"]
    /\ UNCHANGED <<nvars, bvars, dvars, evars, clock, tasks, Allowances, ScheduledTasks, Transactions,
                   runner, cycles, log, counter, restarts>>

\* Time passes.
Tick ==
    /\ clock + TickSecs \in Timestamps
    /\ clock' = clock + TickSecs
    /\ UNCHANGED <<nvars, bvars, dvars, evars, tasks, Allowances, ScheduledTasks, Transactions, actor,
                   runner, cycles, log, counter, restarts>>

Next ==
    \/ Tick
    \/ \E r \in Instances : started(r)
    \/ \E r \in Instances : run_interval(r)
    \/ \E r \in Instances : Crash(r)
    \/ \E r \in Instances : Restart(r)
    \/ \E s \in Slots : Acquire(s[1], s[2])
    \/ \E s \in Slots : AcquireFail(s[1], s[2])
    \/ \E s \in Slots : Begin(s[1], s[2])
    \/ \E s \in Slots : BeginFail(s[1], s[2])
    \/ \E s \in Slots : Check(s[1], s[2])
    \/ \E s \in Slots : CheckFail(s[1], s[2])
    \/ \E s \in Slots : TaskRun(s[1], s[2])
    \/ \E s \in Slots : TaskRunFail(s[1], s[2])
    \/ \E s \in Slots : Update(s[1], s[2])
    \/ \E s \in Slots : UpdateFail(s[1], s[2])
    \/ \E s \in Slots : Commit(s[1], s[2])
    \/ \E s \in Slots : CommitFail(s[1], s[2])
    \/ \E s \in Slots : Return(s[1], s[2])

Spec == Init /\ [][Next]_vars

(***************************************************************************)
(* One instance whose database calls all succeed                           *)
(***************************************************************************)
InitSolo == Init /\ actor[2] = "absent"

\* The steps of an instance in which no call fails.
Step(r) ==
    \/ started(r)
    \/ run_interval(r)
    \/ \E k \in DOMAIN cycles[r] :
          \/ Acquire(r, k)
          \/ Begin(r, k)
          \/ Check(r, k)
          \/ TaskRun(r, k)
          \/ Update(r, k)
          \/ Commit(r, k)
          \/ Return(r, k)

NextSolo == Tick \/ Step(1)

\* Calls of run on one runner and one database, without failures.
SpecSolo == InitSolo /\ [][NextSolo]_vars

\* Allowances as rows of the table: two of one user with the same amount
\* and the same day, one of another day, one of a day no run is made on.
AllowanceRows ==
    { [uid |-> "a1", user_uid |-> "u1", amount |-> 42, schedule |-> "Thu"],
      [uid |-> "a2", user_uid |-> "u2", amount |-> 10, schedule |-> "Fri"],
      [uid |-> "a3", user_uid |-> "u1", amount |-> 42, schedule |-> "Thu"],
      [uid |-> "a4", user_uid |-> "u3", amount |-> 5, schedule |-> "Mon"] }

\* One runner with the payer as its only task, on a database with any of
\* these allowances.
InitPayer ==
    /\ clock = 0
    /\ tasks = <<Daily(PayerName, "Payer")>>
    /\ Allowances \in {SetToBag(rows) : rows \in SUBSET AllowanceRows}
    /\ ScheduledTasks = EmptyBag
    /\ Transactions = EmptyBag
    /\ NoRows
    /\ actor = [r \in Instances |-> IF r = 1 THEN "created" ELSE "absent"]
    /\ runner = [r \in Instances |-> None]
    /\ cycles = [r \in Instances |-> <<>>]
    /\ log = [r \in Instances |-> {}]
    /\ counter = [n \in TestTasks(tasks) |-> 0]
    /\ restarts = 0
    /\ Users = {}
    /\ handler = NoHandler
    /\ requests = 0
    /\ response = "none"
    /\ published = EmptyBag
    /\ secret = NoSecret
    /\ outbox = <<>>
    /\ warnings = {}
    /\ sockets = [c \in Connections |-> NoSocket]
    /\ NoBackend

\* The payer run by the runner, day after day, without failures.
SpecPayer == InitPayer /\ [][NextSolo]_vars

\* The same with crashes.  The actor system keeps running the handlers of a
\* live actor and the supervisor restarts a stopped one.
NextSupervised == NextSolo \/ Crash(1) \/ Restart(1)

SpecSupervised ==
    /\ InitSolo
    /\ [][NextSupervised]_vars
    /\ WF_vars(Step(1))
    /\ WF_vars(Restart(1))

(***************************************************************************)
(* The API: handlers, Notify::send, NotificationSocket                     *)
(***************************************************************************)
\* User::read: the row with the uid, if there is one.
read(table, uid) == {u \in table : u.uid = uid}

\* A SELECT of the users without its WHERE clause.
read_all(table, family_uid) == table

\* User::read_for_family (READ_BY_FAMILY): the rows of a family.
read_for_family(table, family_uid) ==
    {u \in table : u.family_uid = family_uid}

\* A failed read taken for the rows it was to give.
unwrap(rows, ok) == rows

\* .unwrap_or_else(|e| { log::warn!(...); vec![] }) on the result of the
\* read: its rows, or none when the read has failed (`ok` is FALSE).
unwrap_or_else(rows, ok) == IF ok THEN rows ELSE {}

\* Notify::members: the uids of the members of the family that satisfy the
\* predicate; `ok` tells whether the read succeeds.
members(table, family_uid, predicate(_), ok) ==
    LET rows == unwrap_or_else(read_for_family(table, family_uid), ok)
    IN  {u.uid : u \in {x \in rows : predicate(x)}}

\* users with the sender left out of Member as well.
users_not_from(notify, table, from, ok) ==
    IF notify.kind = "Member" THEN {notify.uid} \ {from}
    ELSE members(table, notify.family, LAMBDA u : u.uid # from, ok)

\* users with MemberAndParents read as Parents.
users_parents(notify, table, from, ok) ==
    IF notify.kind = "Member" THEN {notify.uid}
    ELSE IF notify.kind = "Family"
    THEN members(table, notify.family, LAMBDA u : u.uid # from, ok)
    ELSE members(table, notify.family,
                 LAMBDA u : u.role = "Parent" /\ u.uid # from, ok)

\* users with Parents read as Family.
users_family(notify, table, from, ok) ==
    IF notify.kind = "Member" THEN {notify.uid}
    ELSE IF notify.kind = "MemberAndParents"
    THEN members(table, notify.family,
                 LAMBDA u : (u.uid = notify.uid \/ u.role = "Parent")
                                /\ u.uid # from, ok)
    ELSE members(table, notify.family, LAMBDA u : u.uid # from, ok)

\* Notify::users: who is notified, for the table as the transaction sees it.
users(notify, table, from, ok) ==
    IF notify.kind = "Member" THEN {notify.uid}
    ELSE IF notify.kind = "Family"
    THEN members(table, notify.family, LAMBDA u : u.uid # from, ok)
    ELSE IF notify.kind = "MemberAndParents"
    THEN members(table, notify.family,
                 LAMBDA u : (u.uid = notify.uid \/ u.role = "Parent")
                                /\ u.uid # from, ok)
    ELSE members(table, notify.family,
                 LAMBDA u : u.role = "Parent" /\ u.uid # from, ok)

\* What `execute(...).await?` and the Notify built from its result give a
\* handler: an error, or the table as the transaction now sees it and the
\* notification to send.
Err == [ok |-> FALSE, tx |-> {}, notify |-> NoNotify]

Ok(tx, notify) == [ok |-> TRUE, tx |-> tx, notify |-> notify]

\* The same of an execute that has written to other tables than Users: `db`
\* holds them as the transaction now sees them.
OkWith(tx, db, notify) ==
    [ok |-> TRUE, tx |-> tx, db |-> db, notify |-> notify]

\* The name of the user of the body of a family/add: every request of the
\* model names another one.
NewName(uid) == "User " \o encode_lower(uid, 2)

\* family/add: execute asserts that the session is one of a parent of the
\* family of the path and that no user of the family has the name, and
\* creates the user with a new uid and its password (the bodies of the
\* model name no allowance); handle then notifies the family of the
\* session.
family_add(tx, db, state, family_uid, role, uid) ==
    LET user == User(uid, role, NewName(uid), family_uid)
    IN  IF state.role # "Parent" THEN Err
        ELSE IF state.family_uid # family_uid THEN Err
        ELSE IF \E u \in read_for_family(tx, family_uid) :
                    u.name = user.name
        THEN Err
        ELSE OkWith(tx \cup {user},
                    [db EXCEPT !.Passwords = @ \cup {Password(user.uid)}],
                    Family(Event("FamilyMemberAdded", uid, state.user_uid),
                           state.family_uid))

\* family/remove with the notification resolved on the table as it was
\* before the deletion.
family_remove_stale(tx, state, family_uid, user_uid) ==
    LET user == read(tx, user_uid)
        u    == CHOOSE u \in user : TRUE
    IN  IF user = {} THEN Err
        ELSE IF state.role # "Parent" THEN Err
        ELSE IF state.family_uid # family_uid THEN Err
        ELSE IF state.family_uid # u.family_uid THEN Err
        ELSE IF state.user_uid = u.uid THEN Err
        ELSE Ok(tx,
                Family(Event("FamilyMemberRemoved", u.uid, state.user_uid),
                       state.family_uid))

\* family/remove: execute reads the user, asserts that the session is one
\* of a parent of the family of the path and of the user, refuses to remove
\* the session's own user, and deletes the row; handle then notifies the
\* family of the session.
family_remove(tx, state, family_uid, user_uid) ==
    LET user == read(tx, user_uid)
        u    == CHOOSE u \in user : TRUE
    IN  IF user = {} THEN Err
        ELSE IF state.role # "Parent" THEN Err
        ELSE IF state.family_uid # family_uid THEN Err
        ELSE IF state.family_uid # u.family_uid THEN Err
        ELSE IF state.user_uid = u.uid THEN Err
        ELSE Ok(tx \ {u},
                Family(Event("FamilyMemberRemoved", u.uid, state.user_uid),
                       state.family_uid))

\* The uid the database gives a new row of a table with integer keys.
auto_uid(rows) ==
    IF rows = {} THEN 1
    ELSE (CHOOSE n \in {r.uid : r \in rows} :
              \A r \in rows : r.uid <= n) + 1

\* request/make: execute asserts that the session is the one of the user of
\* the path, a child, and creates the request (every request in the model
\* names a request "name" of amount 3); handle then notifies the parents
\* of the session's family.
request_make(tx, db, state, user_uid) ==
    IF state.user_uid # user_uid THEN Err
    ELSE IF state.role # "Child" THEN Err
    ELSE OkWith(tx,
                [db EXCEPT !.Requests =
                    @ \cup {RequestRow(auto_uid(@), user_uid, "name", 3)}],
                Parents(Event("RequestCreated", NilUID, state.user_uid),
                        state.family_uid))

\* Transaction::create_with_auto_uid: the row inserted (its uid, which the
\* database chooses, is left out as in the rows of the allowance payer).
create_with_auto_uid(transaction_type, user_uid, description, amount, time) ==
    SetToBag({[transaction_type |-> transaction_type, user_uid |-> user_uid,
               description |-> description, amount |-> amount,
               time |-> time]})

\* Option::unwrap_or.
unwrap_or(option, default) == IF option = None THEN default ELSE option[1]

\* request/grant that creates the transaction and keeps the request.
request_grant_kept(tx, db, state, cost, user_uid, request_uid, now) ==
    LET request == {r \in db.Requests : r.uid = request_uid}
        r       == CHOOSE r \in request : TRUE
    IN  IF request = {} \/ read(tx, user_uid) = {} THEN Err
        ELSE OkWith(tx,
                    [db EXCEPT !.Transactions =
                        @ (+) create_with_auto_uid(
                                  "request", user_uid, r.name,
                                  -(unwrap_or(cost, r.amount)), now)],
                    MemberAndParents(
                        Event("RequestGranted", NilUID, state.user_uid),
                        user_uid, state.family_uid))

\* request/grant: execute reads the request and the user, asserts that the
\* session is one of a parent of the user's family and that the request is
\* the user's, creates a transaction of the negated cost (the amount of the
\* request when the body names none) and deletes the request; handle then
\* notifies the user and the parents.
request_grant(tx, db, state, cost, user_uid, request_uid, now) ==
    LET request == {r \in db.Requests : r.uid = request_uid}
        r       == CHOOSE r \in request : TRUE
        user    == read(tx, user_uid)
        u       == CHOOSE u \in user : TRUE
    IN  IF request = {} THEN Err
        ELSE IF user = {} THEN Err
        ELSE IF state.role # "Parent" THEN Err
        ELSE IF state.family_uid # u.family_uid THEN Err
        ELSE IF r.user_uid # u.uid THEN Err
        ELSE OkWith(tx,
                    [db EXCEPT !.Transactions =
                         @ (+) create_with_auto_uid(
                                   "request", u.uid, r.name,
                                   -(unwrap_or(cost, r.amount)), now),
                               !.Requests = @ \ {r}],
                    MemberAndParents(
                        Event("RequestGranted", NilUID, state.user_uid),
                        user_uid, state.family_uid))

\* session/logout with Logout sent to the family of the session.
session_logout_family(tx, state) ==
    Ok(tx, Family(Event("Logout", NilUID, NilUID), state.family_uid))

\* session/logout: the cookie is cleared and Logout goes to the session's
\* own user.
session_logout(tx, state) ==
    Ok(tx, Member(Event("Logout", NilUID, NilUID), state.user_uid))

\* session/password: execute reads the password of the session's user,
\* verifies current_password against it and stores the new hash (which the
\* rows of the model leave out); handle then sends Logout to the session's
\* own user.
session_password(tx, db, state, verified) ==
    IF {p \in db.Passwords : p.user_uid = state.user_uid} = {} THEN Err
    ELSE IF ~verified THEN Err
    ELSE Ok(tx, Member(Event("Logout", NilUID, NilUID), state.user_uid))

\* The tables other than Users after execute has returned `res`.
written(h, res) == IF "db" \in DOMAIN res THEN res.db ELSE h.db

\* The committed tables other than Users, which a transaction sees when it
\* begins.
Tables ==
    [Requests |-> RequestRows, Transactions |-> Transactions,
     Invitations |-> Invitations, Passwords |-> Passwords,
     Allowances |-> Allowances]

\* The same with the status of the api::Error.
ErrWith(status) ==
    [ok |-> FALSE, tx |-> {}, notify |-> NoNotify, status |-> status]

\* Invitation::allowance: the amount and the schedule of the allowance of
\* an invitation of a child that has both.
allowance(invitation) ==
    IF invitation.role = "Child"
    THEN IF invitation.allowance_amount = None THEN None
         ELSE IF invitation.allowance_schedule = None THEN None
         ELSE Some([amount |-> invitation.allowance_amount[1],
                    schedule |-> invitation.allowance_schedule[1]])
    ELSE None

\* The second UID::new() of a handler, after the one of NewUID.
SecondUID(uid) == uid + 48

\* invitation/accept that creates the rows and keeps the invitation.
invitation_accept_kept(tx, db, invitation_uid, hashed, uid) ==
    LET found      == {i \in db.Invitations : i.uid = invitation_uid}
        invitation == CHOOSE i \in found : TRUE
        user       == User(uid, invitation.role, invitation.name,
                           invitation.family_uid)
    IN  IF found = {} THEN ErrWith("not found")
        ELSE IF ~hashed THEN ErrWith("bad request")
        ELSE IF \E u \in read_for_family(tx, invitation.family_uid) :
                    u.name = user.name
        THEN ErrWith("conflict")
        ELSE OkWith(tx \cup {user},
                    [db EXCEPT
                        !.Passwords = @ \cup {Password(user.uid)},
                        !.Allowances =
                            IF allowance(invitation) = None THEN @
                            ELSE @ (+) SetToBag({Allowance(
                                     SecondUID(uid), user.uid,
                                     allowance(invitation)[1].amount,
                                     allowance(invitation)[1].schedule)})],
                    Family(Event("FamilyMemberAdded", user.uid, user.uid),
                           user.family_uid))

\* invitation/accept: execute reads the invitation (404 when there is
\* none), hashes the password of the body (400 when that fails; `hashed`
\* says that it does not), answers 409 when a user of the invitation's
\* family has the invitation's name, and creates the user with a new uid,
\* the password, the allowance Invitation::allowance gives, if any, and
\* deletes the invitation; handle then notifies the family of the new user,
\* in its name.
invitation_accept(tx, db, invitation_uid, hashed, uid) ==
    LET found      == {i \in db.Invitations : i.uid = invitation_uid}
        invitation == CHOOSE i \in found : TRUE
        user       == User(uid, invitation.role, invitation.name,
                           invitation.family_uid)
    IN  IF found = {} THEN ErrWith("not found")
        ELSE IF ~hashed THEN ErrWith("bad request")
        ELSE IF \E u \in read_for_family(tx, invitation.family_uid) :
                    u.name = user.name
        THEN ErrWith("conflict")
        ELSE OkWith(tx \cup {user},
                    [db EXCEPT
                        !.Passwords = @ \cup {Password(user.uid)},
                        !.Allowances =
                            IF allowance(invitation) = None THEN @
                            ELSE @ (+) SetToBag({Allowance(
                                     SecondUID(uid), user.uid,
                                     allowance(invitation)[1].amount,
                                     allowance(invitation)[1].schedule)}),
                        !.Invitations = @ \ {invitation}],
                    Family(Event("FamilyMemberAdded", user.uid, user.uid),
                           user.family_uid))

\* invitation/create: execute asserts that the session is one of a parent,
\* builds the invitation of the body for the family of the session (one of
\* a parent without allowance) with a new uid, refuses a name that a user of
\* the family has, and creates the row; handle then notifies the family of
\* the session.  The user description of the event has no uid.
invitation_create(tx, db, state, role, name, uid) ==
    LET invitation ==
            IF role = "Parent"
            THEN Invitation(uid, role, name, None, None, state.family_uid)
            ELSE Invitation(uid, role, name, Some(42), Some("Mon"),
                            state.family_uid)
    IN  IF state.role # "Parent" THEN ErrWith("forbidden")
        ELSE IF \E u \in read_for_family(tx, state.family_uid) :
                    u.name = invitation.name
        THEN ErrWith("conflict")
        ELSE OkWith(tx,
                    [db EXCEPT !.Invitations = @ \cup {invitation}],
                    Family(Event("FamilyMemberInvited", NilUID,
                                 state.user_uid),
                           state.family_uid))

\* The handler of a request up to its call of Notify::send.
execute(h) ==
    IF h.op = "family/add"
    THEN family_add(h.tx, h.db, h.state, h.family_uid, h.role, h.new_uid)
    ELSE IF h.op = "family/remove"
    THEN family_remove(h.tx, h.state, h.family_uid, h.user_uid)
    ELSE IF h.op = "request/make"
    THEN request_make(h.tx, h.db, h.state, h.user_uid)
    ELSE IF h.op = "request/grant"
    THEN request_grant(h.tx, h.db, h.state, h.cost, h.user_uid,
                       h.request_uid, clock)
    ELSE IF h.op = "session/password"
    THEN session_password(h.tx, h.db, h.state, h.found)
    ELSE IF h.op = "invitation/accept"
    THEN invitation_accept(h.tx, h.db, h.invitation_uid, h.found, h.new_uid)
    ELSE IF h.op = "invitation/create"
    THEN invitation_create(h.tx, h.db, h.state, h.role, h.name, h.new_uid)
    ELSE session_logout(h.tx, h.state)

\* A request comes in: the handler has its connection, has begun its
\* transaction and has loaded the session.
handle(req) ==
    /\ handler.pc \in {"idle", "done"}
    /\ requests < MaxRequests
    /\ requests' = requests + 1
    /\ handler' = [NoHandler EXCEPT !.op = req.op, !.state = req.state,
                                    !.user_uid = req.user_uid,
                                    !.family_uid = req.family_uid,
                                    !.role = req.role,
                                    !.found = req.found,
                                    !.request_uid = req.request_uid,
                                    !.cost = req.cost,
                                    !.invitation_uid = req.invitation_uid,
                                    !.new_uid = NewUID(requests'),
                                    !.name = IF "name" \in DOMAIN req
                                             THEN req.name ELSE "",
                                    !.pc = "execute", !.tx = Users,
                                    !.db = Tables]
    /\ response' = "none"
    /\ published' = EmptyBag
    /\ warnings' = {}
    /\ UNCHANGED <<svars, bvars, dvars, evars, Users, sockets>>

\* A request comes in and the handler gets no connection, no transaction or
\* no session (`?` on the first lines of handle).
Unavailable ==
    /\ handler.pc \in {"idle", "done"}
    /\ requests < MaxRequests
    /\ requests' = requests + 1
    /\ handler' = NoHandler
    /\ response' = "error"
    /\ published' = EmptyBag
    /\ warnings' = {}
    /\ UNCHANGED <<svars, bvars, dvars, evars, Users, sockets>>

\* A handler that would go on to its commit after the error of execute.
Rejected_committing(h) == [h EXCEPT !.pc = "commit"]

\* The handler answers with an error: its transaction is dropped.
Rejected(h) == [h EXCEPT !.pc = "done", !.tx = {}, !.db = NoTables]

\* What the handler answers when execute has returned the error `res`.
status(res) == IF "status" \in DOMAIN res THEN res.status ELSE "error"

\* The `from` of Notify::send: the session's user, and for
\* invitation/accept, which has no session, the user it has created.
from(h) ==
    IF h.op = "invitation/accept" THEN h.new_uid ELSE h.state.user_uid

\* A handler that goes from execute to Notify::send whatever it handles.
AfterExecute_unmailed(h) == "users"

\* What the handler does with the result of execute: invitation/create
\* sends the email of the invitation, the others go on to Notify::send.
AfterExecute(h) == IF h.op = "invitation/create" THEN "email" ELSE "users"

\* `execute(...).await?` of the handler, with every database call of it
\* succeeding.
Execute ==
    /\ handler.pc = "execute"
    /\ LET res == execute(handler)
       IN  IF res.ok
           THEN /\ handler' = [handler EXCEPT !.pc = AfterExecute(handler),
                                              !.tx = res.tx,
                                              !.db = written(handler, res),
                                              !.notify = res.notify]
                /\ UNCHANGED response
           ELSE /\ handler' = Rejected(handler)
                /\ response' = status(res)
    /\ UNCHANGED <<svars, bvars, dvars, evars, Users, requests, published,
                   warnings, sockets>>

\* A database call of execute fails (session/logout makes none).
ExecuteFail ==
    /\ handler.pc = "execute"
    /\ handler.op # "session/logout"
    /\ handler' = Rejected(handler)
    /\ response' = "error"
    /\ UNCHANGED <<svars, bvars, dvars, evars, Users, requests, published, warnings, sockets>>

\* What the email sender is given for an invitation: the mailbox of the
\* invited user, the template and the uid of the invitation.
Mail(h) ==
    [to |-> h.name, template |-> "invitation",
     invitation_uid |-> to_string(h.new_uid)]

\* invitation/create: the family of the invitation is read, the mailbox is
\* built and email_sender.send(...).await? succeeds.
Email ==
    /\ handler.pc = "email"
    /\ outbox' = Append(outbox, Mail(handler))
    /\ handler' = [handler EXCEPT !.pc = "users"]
    /\ UNCHANGED <<svars, bvars, dvars, secret, Users, requests, response,
                   published, warnings, sockets>>

\* invitation/create: the read of the family, the mailbox or the sending of
\* the email fails, and `?` leaves the handler.
EmailFail ==
    /\ handler.pc = "email"
    /\ handler' = Rejected(handler)
    /\ response' = "error"
    /\ UNCHANGED <<svars, bvars, dvars, evars, Users, requests, published,
                   warnings, sockets>>

\* `for uid in ...`: the loop of send takes its next recipient, or send
\* returns.  The SELECT of the family has no ORDER BY: any recipient not yet
\* visited may be the next one.
NextRecipient(h) ==
    IF h.pending = {}
    THEN {[h EXCEPT !.uid = NilUID, !.pc = "commit"]}
    ELSE {[h EXCEPT !.uid = u, !.pending = @ \ {u}, !.pc = "channel"] :
             u \in h.pending}

\* The list self.users(tx, from).await has given, before the loop.
Recipients(h, list) == [h EXCEPT !.recipients = list, !.pending = list]

\* self.users(tx, from).await, the family (if one is read) being read.
SendUsers ==
    /\ handler.pc = "users"
    /\ handler' \in NextRecipient(Recipients(handler,
          users(handler.notify, handler.tx, from(handler), TRUE)))
    /\ UNCHANGED <<svars, bvars, dvars, evars, Users, requests, response, published, warnings,
                   sockets>>

\* self.users(tx, from).await, the read of the family failing (Member reads
\* no family).
SendUsersFail ==
    /\ handler.pc = "users"
    /\ handler.notify.kind # "Member"
    /\ handler' \in NextRecipient(Recipients(handler,
          users(handler.notify, handler.tx, from(handler), FALSE)))
    /\ warnings' = warnings \cup {[msg |-> "failed to load family",
                                   topic |-> ""]}
    /\ UNCHANGED <<svars, bvars, dvars, evars, Users, requests, response, published, sockets>>

\* The topic cut to the last digit of the uid.
TopicShort(h) == encode_lower(h.uid, 1)

\* let topic = uid.to_string()
Topic(h) == to_string(h.uid)

\* channel.channel(&topic).await gives the channel.
Channel ==
    /\ handler.pc = "channel"
    /\ handler' = [handler EXCEPT !.pc = "broadcast"]
    /\ UNCHANGED <<svars, bvars, dvars, evars, Users, requests, response, published, warnings,
                   sockets>>

\* What send does when channel(&topic) fails: after the warning, `return`.
ChannelRefused(h) == {[h EXCEPT !.pc = "commit"]}

\* channel.channel(&topic).await fails.
ChannelFail ==
    /\ handler.pc = "channel"
    /\ handler' \in ChannelRefused(handler)
    /\ warnings' = warnings \cup
          {[msg |-> "failed to acquire notification channel",
            topic |-> Topic(handler)]}
    /\ UNCHANGED <<svars, bvars, dvars, evars, Users, requests, response, published, sockets>>

\* What the channel engine does with a broadcast it accepts: every open
\* listener of the topic gets the event on its stream, or an error item when
\* the payload cannot be read back.
Delivered(topic, event, garbled) ==
    [c \in DOMAIN sockets |->
        IF sockets[c].state = "open" /\ sockets[c].topic = topic
        THEN [sockets[c] EXCEPT !.stream =
                 Append(@, IF garbled THEN StreamError ELSE event)]
        ELSE sockets[c]]

\* channel.broadcast(event.clone()).await succeeds.
Broadcast ==
    /\ handler.pc = "broadcast"
    /\ published' = published (+) SetToBag({[topic |-> Topic(handler),
                                             event |-> handler.notify.event]})
    /\ \E garbled \in BOOLEAN :
          sockets' = Delivered(Topic(handler), handler.notify.event, garbled)
    /\ handler' \in NextRecipient(handler)
    /\ UNCHANGED <<svars, bvars, dvars, evars, Users, requests, response, warnings>>

\* send giving the error of a broadcast to the handler, which answers with
\* it.
BroadcastPropagated(h) == {Rejected(h)}

\* What send does when broadcast fails: after the warning, the loop goes on.
BroadcastWarned(h) == NextRecipient(h)

\* channel.broadcast(event.clone()).await fails.
BroadcastFail ==
    /\ handler.pc = "broadcast"
    /\ warnings' = warnings \cup {[msg |-> "failed to send notification",
                                   topic |-> Topic(handler)]}
    /\ handler' \in BroadcastWarned(handler)
    /\ UNCHANGED <<svars, bvars, dvars, evars, Users, requests, response, published, sockets>>

\* send has returned (it returns nothing), and the handler commits.
SendReturned(h) == h.pc = "commit"

\* tx.commit().await? succeeds and the handler answers.  session/logout
\* answers without a commit, having changed nothing.
TxCommit ==
    /\ SendReturned(handler)
    /\ Users' = IF handler.op = "session/logout" THEN Users ELSE handler.tx
    /\ LET db == IF handler.op = "session/logout" THEN Tables
                 ELSE handler.db
       IN  /\ RequestRows' = db.Requests
           /\ Transactions' = db.Transactions
           /\ Invitations' = db.Invitations
           /\ Passwords' = db.Passwords
           /\ Allowances' = db.Allowances
    /\ handler' = [handler EXCEPT !.pc = "done", !.tx = {}, !.db = NoTables]
    /\ response' = "ok"
    /\ UNCHANGED <<tvars, bvars, evars, requests, published, warnings,
                   sockets>>

\* tx.commit().await? fails.
TxCommitFail ==
    /\ handler.pc = "commit"
    /\ handler.op # "session/logout"
    /\ handler' = Rejected(handler)
    /\ response' = "error"
    /\ UNCHANGED <<svars, bvars, dvars, evars, Users, requests, published, warnings, sockets>>

\* The events other processes publish on the channels.
Events ==
    { Event("Ping", NilUID, NilUID),
      Event("Logout", NilUID, NilUID),
      Event("RequestGranted", NilUID, parent.uid) }

\* A process publishes an event on a topic, and the channel engine passes it
\* to the listeners.
Publish(topic, event) ==
    /\ \A c \in DOMAIN sockets :
          /\ Len(sockets[c].stream) < MaxBuffered
          /\ Len(sockets[c].stream) + Len(sockets[c].frames) < MaxFrames
    /\ \E garbled \in BOOLEAN : sockets' = Delivered(topic, event, garbled)
    /\ UNCHANGED <<svars, bvars, dvars, evars, Users, handler, requests, response, published,
                   warnings>>

\* State::load: the state cookie of the session, if it is there and can be
\* parsed.
load(session) == IF session \in Sessions THEN Some(session) ELSE None

\* The topic of a channel that every user shares.
stream_shared(uid) == to_string(NilUID)

\* notify::stream: the topic of the channel it listens on.
stream(uid) == to_string(uid)

\* notify::handle: a client with a session opens the web socket; its
\* NotificationSocket listens on the channel of the session's user.
Connect(c, session) ==
    /\ sockets[c].state = "none"
    /\ \A b \in DOMAIN sockets : b < c => sockets[b].state # "none"
    /\ load(session) # None
    /\ sockets' = [sockets EXCEPT ![c] =
          [NoSocket EXCEPT !.state = "open", !.session = session,
                           !.topic = stream(load(session)[1].user_uid)]]
    /\ UNCHANGED <<svars, bvars, dvars, evars, Users, handler, requests, response, published,
                   warnings>>

\* notify::handle for a request without a state cookie: `?` on State::load
\* answers 401 before anything is listened on.
ConnectUnauthorized(session) ==
    /\ load(session) = None
    /\ response' = "unauthorized"
    /\ UNCHANGED <<svars, bvars, dvars, evars, Users, handler, requests, published, warnings,
                   sockets>>

\* notify::handle, the channel or its listen failing: `?` on stream.
ConnectFail(session) ==
    /\ load(session) # None
    /\ response' = "error"
    /\ UNCHANGED <<svars, bvars, dvars, evars, Users, handler, requests, published, warnings,
                   sockets>>

\* ctx.close(None): a Close frame is written to the connection.  The actor
\* and its stream live on until the client has gone.
close(socket) ==
    [socket EXCEPT !.frames = Append(@, [kind |-> "Close", payload |-> ""])]

\* A text frame written ahead of the frames already written.
text_ahead(socket, json) ==
    [socket EXCEPT !.frames = <<[kind |-> "Text", payload |-> json]>> \o @]

\* ctx.text(json)
text(socket, json) ==
    [socket EXCEPT !.frames = Append(@, [kind |-> "Text", payload |-> json])]

\* An actor stopped by an item of its stream.
stop(socket) == [socket EXCEPT !.state = "stopped", !.stream = <<>>]

\* Err(e) => log::warn!(...): the arm touches neither the context nor the
\* connection.
warn(socket) == socket

\* StreamHandler<Result<Event, Error>>::handle for the next item of the
\* stream.
StreamHandle(c) ==
    /\ sockets[c].state = "open"
    /\ sockets[c].stream # <<>>
    /\ LET msg    == Head(sockets[c].stream)
           socket == [sockets[c] EXCEPT !.stream = Tail(@)]
       IN  IF msg.type = "Logout"
           THEN /\ sockets' = [sockets EXCEPT ![c] = close(socket)]
                /\ UNCHANGED warnings
           ELSE IF msg.type # "Err"
           THEN /\ sockets' = [sockets EXCEPT ![c] =
                                  text(socket, to_json(msg))]
                /\ UNCHANGED warnings
           ELSE /\ sockets' = [sockets EXCEPT ![c] = warn(socket)]
                /\ warnings' = warnings \cup
                      {[msg |-> "failed to receive notification",
                        topic |-> socket.topic]}
    /\ UNCHANGED <<svars, bvars, dvars, evars, Users, handler, requests, response, published>>

\* The client goes away: the stream of its messages ends and the actor
\* stops, whatever is left in the stream of events.
Disconnect(c) ==
    /\ sockets[c].state = "open"
    /\ sockets' = [sockets EXCEPT ![c] =
          [@ EXCEPT !.state = "stopped", !.stream = <<>>]]
    /\ UNCHANGED <<svars, bvars, dvars, evars, Users, handler, requests, response, published,
                   warnings>>

\* The API with its database filled, and no task runner.
InitNotify ==
    /\ clock = 0
    /\ tasks = <<>>
    /\ Allowances = EmptyBag
    /\ ScheduledTasks = EmptyBag
    /\ Transactions = EmptyBag
    /\ actor = [r \in Instances |-> "absent"]
    /\ runner = [r \in Instances |-> None]
    /\ cycles = [r \in Instances |-> <<>>]
    /\ log = [r \in Instances |-> {}]
    /\ counter = [n \in TestTasks(tasks) |-> 0]
    /\ restarts = 0
    /\ Users \in Populations
    /\ RequestRows = PopulatedRequests(Users)
    /\ Invitations = {}
    /\ Passwords = PopulatedPasswords(Users)
    /\ handler = NoHandler
    /\ requests = 0
    /\ response = "none"
    /\ published = EmptyBag
    /\ secret = NoSecret
    /\ outbox = <<>>
    /\ warnings = {}
    /\ sockets = [c \in Connections |-> NoSocket]
    /\ NoBackend

\* The steps of the handler of a request.
NextHandler ==
    \/ Execute
    \/ ExecuteFail
    \/ SendUsers
    \/ SendUsersFail
    \/ Channel
    \/ ChannelFail
    \/ Broadcast
    \/ BroadcastFail
    \/ TxCommit
    \/ TxCommitFail

NextNotify ==
    \/ \E req \in Requests : handle(req)
    \/ Unavailable
    \/ NextHandler

\* The handlers of the API, one request after another, with no connection
\* listening.
SpecNotify == InitNotify /\ [][NextNotify]_vars

\* The same, the handler of a request being run to its end.
SpecNotifyLive == SpecNotify /\ WF_vars(NextHandler)

NextSocket ==
    \/ \E c \in Connections : \E state \in Sessions : Connect(c, state)
    \/ ConnectUnauthorized(NoState)
    \/ \E state \in Sessions : ConnectFail(state)
    \/ \E state \in Sessions : \E event \in Events :
          Publish(to_string(state.user_uid), event)
    \/ \E c \in Connections : StreamHandle(c)
    \/ \E c \in Connections : Disconnect(c)

\* The connections of clients, with the events the channels bring them.
SpecSocket == InitNotify /\ [][NextSocket]_vars

\* Two browsers, each of which may hold a web socket connection.
Browsers == {1, 2}

\* The users who are logged in in the browsers.
LoggedIn == {parent, child0}

\* The requests that end sessions, as the browsers make them.
SessionRequests ==
    {req \in Requests :
        /\ req.op \in {"session/logout", "session/password"}
        /\ req.state \in {State(u) : u \in LoggedIn}}

\* The API with the family of api::tests::populate, and the browsers not
\* yet connected.
InitSession ==
    /\ clock = 0
    /\ tasks = <<>>
    /\ Allowances = EmptyBag
    /\ ScheduledTasks = EmptyBag
    /\ Transactions = EmptyBag
    /\ actor = [r \in Instances |-> "absent"]
    /\ runner = [r \in Instances |-> None]
    /\ cycles = [r \in Instances |-> <<>>]
    /\ log = [r \in Instances |-> {}]
    /\ counter = [n \in TestTasks(tasks) |-> 0]
    /\ restarts = 0
    /\ Users = {parent, child0, child1, other_child}
    /\ RequestRows = PopulatedRequests(Users)
    /\ Invitations = {}
    /\ Passwords = PopulatedPasswords(Users)
    /\ handler = NoHandler
    /\ requests = 0
    /\ response = "none"
    /\ published = EmptyBag
    /\ secret = NoSecret
    /\ outbox = <<>>
    /\ warnings = {}
    /\ sockets = [c \in Browsers |-> NoSocket]
    /\ NoBackend

NextSession ==
    \/ \E req \in SessionRequests : handle(req)
    \/ Unavailable
    \/ Execute
    \/ ExecuteFail
    \/ SendUsers
    \/ Channel
    \/ ChannelFail
    \/ Broadcast
    \/ BroadcastFail
    \/ TxCommit
    \/ TxCommitFail
    \/ \E c \in Browsers : \E u \in LoggedIn : Connect(c, State(u))
    \/ ConnectUnauthorized(NoState)
    \/ \E u \in LoggedIn : ConnectFail(State(u))
    \/ \E c \in Browsers : StreamHandle(c)
    \/ \E c \in Browsers : Disconnect(c)

\* Logouts and password changes, with the connections of the browsers
\* listening.
SpecSession == InitSession /\ [][NextSession]_vars

\* The sessions that grant requests in the tests of request/grant: the
\* parent, a child of the family, and the parent of another family.
Granters == {parent, child1, other_parent}

\* The costs a grant names: none, one, and a negative one.
Costs == {None, Some(5), Some(-4)}

\* Grants of a request of a child to one of the children.
GrantRequests ==
    [op : {"request/grant"}, state : {State(u) : u \in Granters},
     user_uid : {child0.uid, child1.uid}, family_uid : {NilUID},
     role : {"none"}, found : {TRUE},
     request_uid : {request0.uid, request1.uid, UnknownRequest},
     cost : Costs, invitation_uid : {NilUID}]

\* The API with the families of the tests of request/grant and a request of
\* each child.
InitGrant ==
    /\ clock = 0
    /\ tasks = <<>>
    /\ Allowances = EmptyBag
    /\ ScheduledTasks = EmptyBag
    /\ Transactions = EmptyBag
    /\ actor = [r \in Instances |-> "absent"]
    /\ runner = [r \in Instances |-> None]
    /\ cycles = [r \in Instances |-> <<>>]
    /\ log = [r \in Instances |-> {}]
    /\ counter = [n \in TestTasks(tasks) |-> 0]
    /\ restarts = 0
    /\ Users = {parent, child0, child1, other_parent}
    /\ RequestRows = PopulatedRequests(Users)
    /\ Invitations = {}
    /\ Passwords = PopulatedPasswords(Users)
    /\ handler = NoHandler
    /\ requests = 0
    /\ response = "none"
    /\ published = EmptyBag
    /\ secret = NoSecret
    /\ outbox = <<>>
    /\ warnings = {}
    /\ sockets = [c \in Connections |-> NoSocket]
    /\ NoBackend

NextGrant ==
    \/ \E req \in GrantRequests : handle(req)
    \/ Unavailable
    \/ NextHandler

\* Grants of requests, one after the other.
SpecGrant == InitGrant /\ [][NextGrant]_vars

\* The invitations of the tests of invitation/accept (create::invitation
\* gives one of a child an allowance of 42 on Mondays, and one of a parent
\* none), and one of a child without an allowance.
invitation_parent == Invitation(100, "Parent", "New User", None, None, family)

invitation_child ==
    Invitation(101, "Child", "New User", Some(42), Some("Mon"), family)

invitation_conflict ==
    Invitation(102, "Parent", child0.name, None, None, family)

invitation_bare == Invitation(103, "Child", "Newer User", None, None, family)

\* The uid of no invitation.
UnknownInvitation == 104

\* Accepts of an invitation, with a password that can be hashed or not.
AcceptRequests ==
    [op : {"invitation/accept"}, state : {NoState}, user_uid : {NilUID},
     family_uid : {NilUID}, role : {"none"}, found : BOOLEAN,
     request_uid : {0}, cost : {None},
     invitation_uid : {invitation_parent.uid, invitation_child.uid,
                       invitation_conflict.uid, invitation_bare.uid,
                       UnknownInvitation}]

\* The API with the family of api::tests::populate and the invitations.
InitAccept ==
    /\ clock = 0
    /\ tasks = <<>>
    /\ Allowances = EmptyBag
    /\ ScheduledTasks = EmptyBag
    /\ Transactions = EmptyBag
    /\ actor = [r \in Instances |-> "absent"]
    /\ runner = [r \in Instances |-> None]
    /\ cycles = [r \in Instances |-> <<>>]
    /\ log = [r \in Instances |-> {}]
    /\ counter = [n \in TestTasks(tasks) |-> 0]
    /\ restarts = 0
    /\ Users = {parent, child0, child1}
    /\ RequestRows = PopulatedRequests(Users)
    /\ Invitations = {invitation_parent, invitation_child,
                      invitation_conflict, invitation_bare}
    /\ Passwords = PopulatedPasswords(Users)
    /\ handler = NoHandler
    /\ requests = 0
    /\ response = "none"
    /\ published = EmptyBag
    /\ secret = NoSecret
    /\ outbox = <<>>
    /\ warnings = {}
    /\ sockets = [c \in Connections |-> NoSocket]
    /\ NoBackend

NextAccept ==
    \/ \E req \in AcceptRequests : handle(req)
    \/ Unavailable
    \/ NextHandler

\* Accepts of invitations, one after the other.
SpecAccept == InitAccept /\ [][NextAccept]_vars

\* Invitations made by the parent, by a child and by the parent of the
\* other family, of a parent or a child, of a new name or of the name of a
\* member.
InviteRequests ==
    [op : {"invitation/create"},
     state : {State(parent), State(child0), State(other_parent)},
     user_uid : {NilUID}, family_uid : {NilUID},
     role : {"Parent", "Child"}, found : {TRUE}, request_uid : {0},
     cost : {None}, invitation_uid : {NilUID},
     name : {"New User", child0.name}]

\* The API with two families and no invitation.
InitInvite ==
    /\ clock = 0
    /\ tasks = <<>>
    /\ Allowances = EmptyBag
    /\ ScheduledTasks = EmptyBag
    /\ Transactions = EmptyBag
    /\ actor = [r \in Instances |-> "absent"]
    /\ runner = [r \in Instances |-> None]
    /\ cycles = [r \in Instances |-> <<>>]
    /\ log = [r \in Instances |-> {}]
    /\ counter = [n \in TestTasks(tasks) |-> 0]
    /\ restarts = 0
    /\ Users = {parent, child0, child1, other_parent, other_child}
    /\ RequestRows = PopulatedRequests(Users)
    /\ Invitations = {}
    /\ Passwords = PopulatedPasswords(Users)
    /\ handler = NoHandler
    /\ requests = 0
    /\ response = "none"
    /\ published = EmptyBag
    /\ secret = NoSecret
    /\ outbox = <<>>
    /\ warnings = {}
    /\ sockets = [c \in Connections |-> NoSocket]
    /\ NoBackend

NextInvite ==
    \/ \E req \in InviteRequests : handle(req)
    \/ Unavailable
    \/ NextHandler
    \/ Email
    \/ EmailFail

\* Invitations, one after the other.
SpecInvite == InitInvite /\ [][NextInvite]_vars

(***************************************************************************)
(* The notification backends: Redis and the fixture                        *)
(***************************************************************************)
\* The most send calls a Redis backend serves.
MaxSent == 3

\* The most events a fixture backend is seeded with.
MaxSeeded == 3

\* The most send calls served when every variant of Event is sent.
MaxWire == 1

\* The names of channels that callers pass to send and listen.
ChannelNames == {"test", "other"}

\* Result<_, notifications::Error> as the value of a call.
Returned(call, value) == [call |-> call, value |-> value]

\* An item of a stream of Result<Event, notifications::Error>.
OkItem(event) == [ok |-> TRUE, event |-> event, error |-> ""]

ErrItem(error) == [ok |-> FALSE, event |-> NoEvent, error |-> error]

\* The variants of Event, and for each the name of the field that holds its
\* entity (the variants Ping and Logout have no fields).
Variants ==
    {"Ping", "Logout", "AllowanceUpdated", "FamilyMemberInvited",
     "FamilyMemberAdded", "FamilyMemberRemoved", "RequestCreated",
     "RequestGranted", "RequestDeclined"}

entity_field(type) ==
    IF type \in {"Ping", "Logout"} THEN ""
    ELSE IF type = "AllowanceUpdated" THEN "allowance"
    ELSE IF type \in {"FamilyMemberInvited", "FamilyMemberAdded",
                      "FamilyMemberRemoved"} THEN "user"
    ELSE "request"

\* CBOR data items: a text string (major type 3) and the head of a map of n
\* pairs (major type 5).  A byte string is written here as the sequence of
\* the data items it encodes.
text_item(s) == [major |-> 3, value |-> s]

map_item(n) == [major |-> 5, value |-> n]

\* to_vec with the field `by` left out.
to_vec_anonymous(event) ==
    IF entity_field(event.type) = ""
    THEN <<map_item(1), text_item("type"), text_item(event.type)>>
    ELSE <<map_item(2), text_item("type"), text_item(event.type),
           text_item(entity_field(event.type)), map_item(1),
           text_item("uid"), text_item(to_string(event.user))>>

\* serde_cbor::to_vec(event) for #[serde(tag = "type")]: a map with the tag
\* first and the fields of the variant behind it, in the order of their
\* declaration.  Of an entity its uid is written; a UID is written as the
\* text of its Display.
to_vec(event) ==
    IF entity_field(event.type) = ""
    THEN <<map_item(1), text_item("type"), text_item(event.type)>>
    ELSE <<map_item(3), text_item("type"), text_item(event.type),
           text_item(entity_field(event.type)), map_item(1),
           text_item("uid"), text_item(to_string(event.user)),
           text_item("by"), text_item(to_string(event.by))>>

\* The value of a hexadecimal digit, or -1.
hex_value(ch) ==
    IF \E i \in 1..16 : SubSeq(HexDigits, i, i) = ch
    THEN (CHOOSE i \in 1..16 : SubSeq(HexDigits, i, i) = ch) - 1
    ELSE IF \E i \in 1..6 : SubSeq("ABCDEF", i, i) = ch
    THEN (CHOOSE i \in 1..6 : SubSeq("ABCDEF", i, i) = ch) + 9
    ELSE -1

\* The number that the first n digits of s write.
RECURSIVE hex_number(_, _)
hex_number(s, n) ==
    IF n = 0 THEN 0
    ELSE 16 * hex_number(s, n - 1) + hex_value(SubSeq(s, n, n))

\* Uuid::parse_str for the simple format: 32 hexadecimal digits.  (The
\* hyphenated and the urn formats are not written by Display for UID.)
parse_str(s) ==
    IF Len(s) = 32 /\ \A i \in 1..32 : hex_value(SubSeq(s, i, i)) >= 0
    THEN Some(hex_number(s, 32))
    ELSE None

\* The data item that begins at a position of a byte string, as the value
\* it stands for: a text, or a map as the sequence of its pairs.  `next` is
\* the position behind the item.
NoValue == [ok |-> FALSE, kind |-> "", text |-> "", pairs |-> <<>>, next |-> 0]

RECURSIVE parse_value(_, _)
RECURSIVE parse_pairs(_, _, _)
parse_value(bytes, pos) ==
    IF pos > Len(bytes) THEN NoValue
    ELSE IF bytes[pos].major = 3
    THEN [ok |-> TRUE, kind |-> "text", text |-> bytes[pos].value,
          pairs |-> <<>>, next |-> pos + 1]
    ELSE parse_pairs(bytes, pos + 1, bytes[pos].value)

parse_pairs(bytes, pos, n) ==
    IF n = 0
    THEN [ok |-> TRUE, kind |-> "map", text |-> "", pairs |-> <<>>,
          next |-> pos]
    ELSE LET key == parse_value(bytes, pos)
         IN  IF ~key.ok \/ key.kind # "text" THEN NoValue
             ELSE LET value == parse_value(bytes, key.next)
                  IN  IF ~value.ok THEN NoValue
                      ELSE LET rest == parse_pairs(bytes, value.next, n - 1)
                           IN  IF ~rest.ok THEN NoValue
                               ELSE [rest EXCEPT !.pairs =
                                        <<[key |-> key.text,
                                           value |-> value]>> \o @]

\* The values a map has for a key.
field(map, key) ==
    {map.pairs[i].value :
        i \in {j \in DOMAIN map.pairs : map.pairs[j].key = key}}

\* The UID a text value holds, if it is a text and holds one.
uid_of(values) ==
    IF Cardinality(values) # 1 THEN None
    ELSE LET value == CHOOSE v \in values : TRUE
         IN  IF value.kind # "text" THEN None ELSE parse_str(value.text)

\* The UID of the entity a map value holds.
entity_of(values) ==
    IF Cardinality(values) # 1 THEN None
    ELSE LET value == CHOOSE v \in values : TRUE
         IN  IF value.kind # "map" THEN None
             ELSE uid_of(field(value, "uid"))

\* serde_cbor::from_slice::<Event>(&bytes): the bytes are one map, its
\* "type" names a variant, and the map has the fields of that variant.
from_slice(bytes) ==
    LET map  == parse_value(bytes, 1)
        tags == IF map.ok /\ map.kind = "map" THEN field(map, "type") ELSE {}
        tag  == CHOOSE v \in tags : TRUE
    IN  IF ~map.ok \/ map.kind # "map" \/ map.next # Len(bytes) + 1
        THEN ErrItem("Serialization")
        ELSE IF Cardinality(tags) # 1 THEN ErrItem("Serialization")
        ELSE IF tag.kind # "text" \/ tag.text \notin Variants
        THEN ErrItem("Serialization")
        ELSE IF entity_field(tag.text) = ""
        THEN OkItem(Event(tag.text, NilUID, NilUID))
        ELSE LET user == entity_of(field(map, entity_field(tag.text)))
                 by   == uid_of(field(map, "by"))
             IN  IF user = None \/ by = None THEN ErrItem("Serialization")
                 ELSE OkItem(Event(tag.text, user[1], by[1]))

\* The prefix alone as the name of every channel.
channel_shared(channel_prefix, name) == channel_prefix

\* Notifier::channel of the Redis backend: the fully qualified name.
channel(channel_prefix, name) == channel_prefix \o "." \o name

\* What the Redis server does with a PUBLISH: the payload goes to every
\* connection that is subscribed to the channel, behind what it was sent
\* before.
publish(subscribed, bytes) ==
    [l \in DOMAIN streams |->
        IF streams[l].state = "open" /\ streams[l].subscribed = subscribed
        THEN [streams[l] EXCEPT !.inbox = Append(@, bytes)]
        ELSE streams[l]]

\* redis::Notifier::send: the event is encoded and published.
redis_send(name, event) ==
    /\ notifier.driver = "redis"
    /\ streams' = publish(channel(notifier.channel_prefix, name),
                          to_vec(event))
    /\ sent' = Append(sent, [channel |-> name, event |-> event])
    /\ result' = Returned("send", "Ok")
    /\ UNCHANGED <<svars, nvars, dvars, evars, notifier>>

\* redis::Notifier::send, the PUBLISH failing.
redis_send_fail(name, event) ==
    /\ notifier.driver = "redis"
    /\ result' = Returned("send", "Driver")
    /\ UNCHANGED <<svars, nvars, dvars, evars, notifier, sent, streams>>

\* The listen call that is made next is the first that was not made.
NextListener(l) ==
    /\ streams[l].state = "none"
    /\ \A k \in DOMAIN streams : k < l => streams[k].state # "none"

\* redis::Notifier::listen: a new connection subscribes to the channel, and
\* the stream of its messages is returned.
redis_listen(l, name) ==
    /\ notifier.driver = "redis"
    /\ NextListener(l)
    /\ streams' = [streams EXCEPT ![l] =
          [NoStream EXCEPT !.state = "open", !.channel = name,
                           !.subscribed =
                               channel(notifier.channel_prefix, name),
                           !.since = Len(sent)]]
    /\ result' = Returned("listen", "Ok")
    /\ UNCHANGED <<svars, nvars, dvars, evars, notifier, sent>>

\* redis::Notifier::listen, the connection or the SUBSCRIBE failing.
redis_listen_fail(name) ==
    /\ notifier.driver = "redis"
    /\ result' = Returned("listen", "Driver")
    /\ UNCHANGED <<svars, nvars, dvars, evars, notifier, sent, streams>>

\* The stream of a Redis listener is polled: the closure of listen decodes
\* the payload of the next message.
redis_next(l) ==
    /\ notifier.driver = "redis"
    /\ streams[l].state = "open"
    /\ streams[l].inbox # <<>>
    /\ streams' = [streams EXCEPT ![l] =
          [@ EXCEPT !.inbox = Tail(@),
                    !.yielded = Append(@, from_slice(Head(streams[l].inbox)))]]
    /\ UNCHANGED <<svars, nvars, dvars, evars, notifier, sent, result>>

\* dummy::Notifier::send
dummy_send(name, event) ==
    /\ notifier.driver = "dummy"
    /\ result' = Returned("send", "Driver")
    /\ UNCHANGED <<svars, nvars, dvars, evars, notifier, sent, streams>>

\* listen of the fixture giving a stream that ends at once.
dummy_listen_empty(events) == <<>>

\* dummy::Notifier::listen: the stream of Ok(e.clone()) for the events the
\* Notifier was made with.
dummy_listen_events(events) == [i \in DOMAIN events |-> OkItem(events[i])]

dummy_listen(l, name) ==
    /\ notifier.driver = "dummy"
    /\ NextListener(l)
    /\ streams' = [streams EXCEPT ![l] =
          [NoStream EXCEPT !.state = "open", !.channel = name,
                           !.since = Len(sent),
                           !.inbox = dummy_listen_events(notifier.events)]]
    /\ result' = Returned("listen", "Ok")
    /\ UNCHANGED <<svars, nvars, dvars, evars, notifier, sent>>

\* The stream of a fixture listener is polled.
dummy_next(l) ==
    /\ notifier.driver = "dummy"
    /\ streams[l].state = "open"
    /\ streams[l].inbox # <<>>
    /\ streams' = [streams EXCEPT ![l] =
          [@ EXCEPT !.inbox = Tail(@),
                    !.yielded = Append(@, Head(streams[l].inbox))]]
    /\ UNCHANGED <<svars, nvars, dvars, evars, notifier, sent, result>>

\* A process with a Notifier and nothing else: no task runner, no handler.
InitBackend(notifiers) ==
    /\ clock = 0
    /\ tasks = <<>>
    /\ Allowances = EmptyBag
    /\ ScheduledTasks = EmptyBag
    /\ Transactions = EmptyBag
    /\ NoRows
    /\ actor = [r \in Instances |-> "absent"]
    /\ runner = [r \in Instances |-> None]
    /\ cycles = [r \in Instances |-> <<>>]
    /\ log = [r \in Instances |-> {}]
    /\ counter = [n \in TestTasks(tasks) |-> 0]
    /\ restarts = 0
    /\ Users = {}
    /\ handler = NoHandler
    /\ requests = 0
    /\ response = "none"
    /\ published = EmptyBag
    /\ secret = NoSecret
    /\ outbox = <<>>
    /\ warnings = {}
    /\ sockets = [c \in Connections |-> NoSocket]
    /\ notifier \in notifiers
    /\ sent = <<>>
    /\ streams = [l \in Listeners |-> NoStream]
    /\ result = NoResult

\* The Notifier of tests::notifier!() of redis.rs.
RedisNotifier ==
    [driver |-> "redis", channel_prefix |-> "test", events |-> <<>>]

InitRedis == InitBackend({RedisNotifier})

\* The events that are sent through Redis.
RedisEvents == {Event("Ping", NilUID, NilUID), Event("Logout", NilUID, NilUID)}

NextRedis ==
    \/ /\ Len(sent) < MaxSent
       /\ \E name \in ChannelNames : \E event \in RedisEvents :
             redis_send(name, event)
    \/ \E name \in ChannelNames : \E event \in RedisEvents :
          redis_send_fail(name, event)
    \/ \E l \in Listeners : \E name \in ChannelNames : redis_listen(l, name)
    \/ \E name \in ChannelNames : redis_listen_fail(name)
    \/ \E l \in Listeners : redis_next(l)

\* Senders and listeners of one Redis backend.
SpecRedis == InitRedis /\ [][NextRedis]_vars

\* The events of every variant, for some users.
WireEvents ==
    {Event(type, NilUID, NilUID) : type \in {"Ping", "Logout"}}
    \cup {Event(type, user, by) :
             type \in Variants \ {"Ping", "Logout"},
             user \in {child0.uid, child1.uid, 255},
             by \in {parent.uid, parent2.uid}}

NextWire ==
    \/ /\ Len(sent) < MaxWire
       /\ \E event \in WireEvents : redis_send("test", event)
    \/ redis_listen(1, "test")
    \/ redis_next(1)

\* Events of every variant on their way through Redis.
SpecWire == InitRedis /\ [][NextWire]_vars

\* The events a fixture is seeded with.
RECURSIVE Seeds(_)
Seeds(n) ==
    IF n = 0 THEN {<<>>}
    ELSE Seeds(n - 1)
         \cup {Append(events, event) :
                  events \in {s \in Seeds(n - 1) : Len(s) = n - 1},
                  event \in RedisEvents}

\* Notifier::new_with_events(events)
new_with_events(events) ==
    [driver |-> "dummy", channel_prefix |-> "", events |-> events]

InitDummy == InitBackend({new_with_events(events) : events \in Seeds(MaxSeeded)})

NextDummy ==
    \/ \E name \in ChannelNames : \E event \in RedisEvents :
          dummy_send(name, event)
    \/ \E l \in Listeners : \E name \in ChannelNames : dummy_listen(l, name)
    \/ \E l \in Listeners : dummy_next(l)

\* Senders and listeners of a fixture backend.
SpecDummy == InitDummy /\ [][NextDummy]_vars

(***************************************************************************)
(* configuration::Secret and its string form                               *)
(***************************************************************************)
\* The SIZE of the Secret of the model, in bytes.
SIZE == 2

\* The bytes of the keys of the model: 0x00, 0x12, 0xAB and 0xFF.
Bytes == {0, 18, 171, 255}

\* The keys: [u8; SIZE], the byte of index i being key[i + 1].
Keys == [1..SIZE -> Bytes]

\* Secret::DIGITS.
DIGITS == "0123456789ABCDEF"

\* The characters of the strings that are parsed: digits, letters of both
\* cases that are hexadecimal digits, and one that is none.
Alphabet == {"1", "2", "b", "F", "g"}

\* The strings of at most n characters of the alphabet.
RECURSIVE Words(_)
Words(n) ==
    IF n = 0 THEN {""}
    ELSE LET shorter == Words(n - 1)
         IN  shorter \cup {w \o c : w \in shorter, c \in Alphabet}

\* The strings that are parsed: up to one character more than 2 * SIZE.
Sources == Words(2 * SIZE + 1)

\* The character of a string at a position (from 1).
char(s, i) == SubSeq(s, i, i)

\* char::to_digit(16): the value of a hexadecimal digit of either case.
to_digit(c) ==
    LET values == {n \in 0..15 : \/ char("0123456789abcdef", n + 1) = c
                                 \/ char("0123456789ABCDEF", n + 1) = c}
    IN  IF values = {} THEN None ELSE Some(CHOOSE n \in values : TRUE)

\* What Secret::try_from gives: a key, an error, or a panic.
Key(key) == [kind |-> "Ok", key |-> key, error |-> ""]

Error(error) == [kind |-> "Err", key |-> <<>>, error |-> error]

Panic == [kind |-> "panic", key |-> <<>>, error |-> ""]

\* (0..n).map(|i| ...).collect() of Into<String>, from index i on: the
\* character of index i is a nibble of the byte of index i >> 1, the low
\* one for an even i and the high one for an odd i.
RECURSIVE collect(_, _, _)
collect(key, i, n) ==
    IF i >= n THEN ""
    ELSE LET byte == key[(i \div 2) + 1]
         IN  (IF i % 2 = 0
              THEN char(DIGITS, (byte % 16) + 1)
              ELSE char(DIGITS, ((byte \div 16) % 16) + 1))
                 \o collect(key, i + 1, n)

\* Into<String> for Secret: the range of the indices is 0..SIZE.
into(key) == collect(key, 0, SIZE)

\* TryFrom<String> for Secret: every character is converted with to_digit
\* (an error when one is no digit); the digits are taken in chunks of two,
\* c[0] | (c[1] << 4) being a byte (the last chunk of an odd number of
\* digits has no c[1]: the index panics); the bytes are converted to
\* [u8; SIZE] (an error when they are not SIZE).
try_from(source) ==
    LET digits == [i \in 1..Len(source) |-> to_digit(char(source, i))]
        bytes  == [j \in 1..(Len(source) \div 2) |->
                      (digits[2 * j - 1][1] + digits[2 * j][1] * 16) % 256]
    IN  IF \E i \in 1..Len(source) : digits[i] = None
        THEN Error("contains an invalid character")
        ELSE IF Len(source) % 2 = 1 THEN Panic
        ELSE IF Len(bytes) # SIZE THEN Error("expected length")
        ELSE Key(bytes)

\* A Secret is converted into its string (serde: into = "String").
Write(key) ==
    /\ secret.pc = "none"
    /\ secret' = [NoSecret EXCEPT !.pc = "written", !.key = key,
                                  !.source = into(key)]
    /\ UNCHANGED <<svars, nvars, bvars, dvars, outbox>>

\* The string a Secret was converted into is parsed (serde: try_from =
\* "String").
ReadBack ==
    /\ secret.pc = "written"
    /\ secret' = [secret EXCEPT !.pc = "read back",
                                !.result = try_from(secret.source)]
    /\ UNCHANGED <<svars, nvars, bvars, dvars, outbox>>

\* A string of a configuration file is parsed.
Read(source) ==
    /\ secret.pc = "none"
    /\ secret' = [NoSecret EXCEPT !.pc = "read", !.source = source,
                                  !.result = try_from(source)]
    /\ UNCHANGED <<svars, nvars, bvars, dvars, outbox>>

\* A process that only converts a Secret.
InitSecret == InitBackend({NoNotifier})

NextSecret ==
    \/ \E key \in Keys : Write(key)
    \/ ReadBack
    \/ \E source \in Sources : Read(source)

SpecSecret == InitSecret /\ [][NextSecret]_vars

(***************************************************************************)
(* Properties                                                              *)
(***************************************************************************)
Range(s) == {s[j] : j \in DOMAIN s}

\* The task has a committed row for the label.
Marked(name, last_run) == CHECK(ScheduledTasks, name, last_run) # EmptyBag

\* The labels for which a task has a committed row.
LabelsOf(name) ==
    {row.last_run : row \in {x \in BagToSet(ScheduledTasks) : x.task = name}}

\* The run calls in which task j has been run and is not yet committed.
Uncommitted(j) ==
    {s \in Slots : /\ cycles[s[1]][s[2]].i = j
                   /\ cycles[s[1]][s[2]].pc \in {"update", "commit"}}

\* The label of a daily task for a timestamp.
DailyLabel(j, timestamp) == ScheduledTaskTimestamp(tasks[j], timestamp, 0)

\* C1: on one runner and one database, a daily task is executed exactly once
\* for each distinct period label: its counter is the number of labels it
\* has been run for, no label has two rows, and when run returns Ok the
\* label of its timestamp is among them.
C1_OncePerLabel ==
    \A j \in DOMAIN tasks : tasks[j].kind = "Daily" =>
        LET name == tasks[j].name
        IN  /\ \A l \in LabelsOf(name) :
                  BagCardinality(CHECK(ScheduledTasks, name, l)) = 1
            /\ tasks[j].body = "TestTask" =>
                  counter[name] = Min(MaxCount, Cardinality(LabelsOf(name))
                                          + Cardinality(Uncommitted(j)))
            /\ \A s \in Slots :
                  LET c == cycles[s[1]][s[2]]
                  IN  c.pc = "return" /\ c.errors = <<>>
                          => Marked(name, DailyLabel(j, c.timestamp))

\* The second run with the timestamp of the first has returned, and the
\* counter of the task is one.
C1_Witness ==
    /\ tasks = <<Daily("test-task", "TestTask")>>
    /\ counter["test-task"] = 1
    /\ \E s \in Slots : LET c == cycles[s[1]][s[2]]
                        IN  c.kind = "tick" /\ c.pc = "return"
                                /\ c.timestamp = 0

\* C2: of the concurrent check_and_run calls that saw no row for a task and
\* a label, at most one commits: a transaction that holds the row to commit
\* still sees no committed row for it, and no other transaction holds one.
C2_OneCommits ==
    \A s \in Slots :
        LET c == cycles[s[1]][s[2]]
        IN  c.pc = "commit" =>
              \A row \in BagToSet(c.wST) :
                  /\ ~Marked(row.task, row.last_run)
                  /\ \A o \in Slots \ {s} :
                        CHECK(cycles[o[1]][o[2]].wST, row.task, row.last_run)
                            = EmptyBag

\* Two calls of two instances have both seen no row for the same task and
\* the same timestamp, and one of them is about to commit.
C2_Witness ==
    \E s \in Slots : \E o \in Slots \ {s} :
        LET c == cycles[s[1]][s[2]]
            d == cycles[o[1]][o[2]]
        IN  /\ c.pc = "commit" /\ c.read
            /\ d.pc \in {"task", "update"} /\ d.read
            /\ c.i = d.i /\ c.timestamp = d.timestamp

\* A bag with every row n times.
Times(bag, n) == [row \in BagToSet(bag) |-> bag[row] * n]

\* What the payer inserts for a set of rows of ScheduledTasks.
RECURSIVE Payments(_)
Payments(rows) ==
    IF rows = {} THEN EmptyBag
    ELSE LET m == CHOOSE m \in rows : TRUE
         IN  Times(SQL(Allowances, m.time), ScheduledTasks[m])
                 (+) Payments(rows \ {m})

\* C3: in every committed state, the allowance transactions are exactly the
\* ones of the payer's recorded runs: a run is recorded if and only if its
\* payments are persisted.
C3_Atomic ==
    Where(Transactions, LAMBDA x : x.transaction_type = "allowance")
        = Payments({m \in BagToSet(ScheduledTasks) : m.task = PayerName})

\* After a crash, the payer is recorded and has paid.
C3_Witness ==
    /\ restarts > 0
    /\ Transactions # EmptyBag
    /\ \E m \in BagToSet(ScheduledTasks) : m.task = PayerName

\* C4: ScheduledTasks never holds two rows for one task and one label.
C4_OneRow ==
    \A row \in BagToSet(ScheduledTasks) :
        BagCardinality(CHECK(ScheduledTasks, row.task, row.last_run)) = 1

\* A row is committed while another instance, which had seen none, is still
\* in its transaction.
C4_Witness ==
    /\ ScheduledTasks # EmptyBag
    /\ \E s \in Slots : cycles[s[1]][s[2]].stale

\* The errors of a run call are task failures, one entry a task, in order.
TaskErrors(c) ==
    /\ Range(c.errors) \subseteq DOMAIN tasks
    /\ \A a, b \in DOMAIN c.errors : a < b => c.errors[a] < c.errors[b]

\* C5: when a run call that got its connection returns, every task has been
\* visited, errors holds one entry for each failed task, and every task that
\* did not fail has its row (a daily task for the label of the timestamp).
C5_Isolation ==
    \A s \in Slots :
        LET c == cycles[s[1]][s[2]]
        IN  c.pc = "return" /\ c.errors # <<0>> =>
              /\ c.i = Len(tasks) + 1
              /\ TaskErrors(c)
              /\ \A j \in DOMAIN tasks \ Range(c.errors) :
                    IF tasks[j].kind = "Daily"
                    THEN Marked(tasks[j].name, DailyLabel(j, c.timestamp))
                    ELSE LabelsOf(tasks[j].name) # {}

\* Of two tasks the first has failed, the second has run and is recorded.
C5_Witness ==
    /\ Len(tasks) = 2
    /\ \E s \in Slots :
          LET c == cycles[s[1]][s[2]]
          IN  /\ c.pc = "return" /\ c.errors = <<1>>
              /\ LabelsOf(tasks[2].name) # {}
              /\ LabelsOf(tasks[1].name) = {}

\* The run calls of an instance that are in progress before and after a step.
Continuing(r) == DOMAIN cycles[r] \cap DOMAIN cycles'[r]

\* check_and_run fails for its task in the step.
FailsIn(c, d) ==
    /\ c.pc \in {"begin", "check", "task", "update", "commit"}
    /\ Len(d.errors) > Len(c.errors)

\* C6: a failing check_and_run leaves no row and no write of the task behind,
\* neither committed nor in its connection; and a check that finds no row
\* for the label runs the task, in whichever cycle, while a check that finds
\* the row of an earlier success does not.
C6_RetryUntilSuccess ==
    [][\A r \in Instances : \A k \in Continuing(r) :
          LET c == cycles[r][k]
              d == cycles'[r][k]
          IN  /\ FailsIn(c, d) =>
                    /\ ScheduledTasks' = ScheduledTasks
                    /\ Transactions' = Transactions
                    /\ ~d.wrote /\ d.wST = EmptyBag /\ d.wTx = EmptyBag
              /\ c.pc = "check" /\ d # c /\ d.errors = c.errors =>
                    (d.pc = "task" <=>
                        ~Marked(tasks[c.i].name,
                                ScheduledTaskTimestamp(tasks[c.i],
                                                       c.timestamp, clock)))
      ]_vars

\* The payer has failed in a cycle after it had written, and no payment and
\* no row is committed.
C6_Witness ==
    /\ tasks = <<Daily(PayerName, "Payer")>>
    /\ ScheduledTasks = EmptyBag /\ Transactions = EmptyBag
    /\ \E s \in Slots : LET c == cycles[s[1]][s[2]]
                        IN  c.kind = "tick" /\ c.pc = "return"
                                /\ c.errors = <<1>>

\* C7: the armed interval is 5% of the shortest duration of the tasks.
C7_ShortestCadence ==
    \A r \in Instances : runner[r] # None =>
        runner[r] = Some(mul_f32(SeqMin([j \in DOMAIN tasks |->
                                            duration(tasks[j])])))

\* C8: an instance has at most one run call in progress, and a run call
\* takes the tasks one after another in the order of the list.
C8_Sequential ==
    [][\A r \in Instances :
          /\ Len(cycles'[r]) <= 1
          /\ cycles[r] # <<>> /\ cycles'[r] # <<>> =>
                LET c == cycles[r][1]
                    d == cycles'[r][1]
                IN  /\ d.i \in {c.i, c.i + 1}
                    /\ d.i = c.i + 1 => d.pc \in {"begin", "return"}
                    /\ d.i = c.i /\ d.pc # c.pc => c.pc # "return"
      ]_vars

\* The interval is armed and a cycle is running its second task.
C8_Witness ==
    \E r \in Instances :
        /\ actor[r] = "running" /\ runner[r] # None
        /\ cycles[r] # <<>>
        /\ cycles[r][1].kind = "tick"
        /\ cycles[r][1].i = 2 /\ cycles[r][1].pc = "task"

\* C9: with crashes and supervised restarts, a task is run only when it has
\* no committed row for the label, and a daily task that has none when the
\* actor is down gets one (unless the day ends first).
C9_Restart ==
    /\ [][\A k \in Continuing(1) :
             LET c == cycles[1][k]
                 d == cycles'[1][k]
             IN  c.pc = "task" /\ d.pc = "update" =>
                    ~Marked(tasks[c.i].name,
                            ScheduledTaskTimestamp(tasks[c.i],
                                                   c.timestamp, clock))
         ]_vars
    /\ \A j \in 1..2 : \A ts \in Timestamps :
          (/\ j \in DOMAIN tasks
           /\ tasks[j].kind = "Daily"
           /\ actor[1] = "stopped"
           /\ clock = ts
           /\ ~Marked(tasks[j].name, DailyLabel(j, ts)))
          ~> (/\ j \in DOMAIN tasks
              /\ \/ Marked(tasks[j].name, DailyLabel(j, ts))
                 \/ DayNumber(clock) # DayNumber(ts))

\* After a crash the first cycle runs a task, with a row of an earlier
\* period committed.
C9_Witness ==
    /\ restarts > 0
    /\ actor[1] = "starting"
    /\ ScheduledTasks # EmptyBag
    /\ cycles[1] # <<>>
    /\ cycles[1][1].pc = "task"

\* The run call returns the error of the pool in the step.
ReturnsPoolError(r) ==
    /\ cycles[r] # <<>>
    /\ cycles[r][1].pc = "return"
    /\ cycles[r][1].errors = <<0>>
    /\ cycles'[r] = <<>>

\* C10 as stated: the error of the pool takes the runner down.
C10_Propagates ==
    [][\A r \in Instances : ReturnsPoolError(r) => actor'[r] = "stopped"]_vars

\* C10, amended: without a connection no task is run in the cycle; run
\* returns the error, and unless the actor crashes at that moment the caller
\* logs the error and the actor stays up with its interval armed.
C10_Absorbed ==
    /\ [](\A s \in Slots :
             LET c == cycles[s[1]][s[2]]
             IN  0 \in Range(c.errors) =>
                    /\ c.pc = "return" /\ c.i = 0 /\ c.errors = <<0>>
                    /\ ~c.read /\ ~c.wrote)
    /\ [][\A r \in Instances : ReturnsPoolError(r) /\ restarts' = restarts =>
             /\ actor'[r] = "running"
             /\ runner'[r] = interval(tasks)
             /\ log'[r] \cap {"Failed to execute scheduled tasks",
                              "Failed to execute scheduled tasks first time"}
                    # {}
             /\ ScheduledTasks' = ScheduledTasks
             /\ Transactions' = Transactions
             /\ counter' = counter
         ]_vars

\* A cycle of the interval has got no connection and is about to return.
C10_Witness ==
    \E r \in Instances :
        /\ cycles[r] # <<>>
        /\ cycles[r][1].kind = "tick"
        /\ cycles[r][1].pc = "return"
        /\ cycles[r][1].errors = <<0>>

(***************************************************************************)
(* Properties of the notifications                                         *)
(***************************************************************************)
\* send has its list of recipients and the handler's transaction is open.
Resolved == handler.pc \in {"channel", "broadcast", "commit"}

\* The read of the family has failed in the send of this request.
ReadFailed == [msg |-> "failed to load family", topic |-> ""] \in warnings

\* The user that sent the notification (`from`).
Sender == handler.state.user_uid

\* The rows of the notified family, as the handler's transaction sees them.
FamilyRows == {u \in handler.tx : u.family_uid = handler.notify.family}

\* C11: for Notify::Family the recipients are exactly the members of the
\* family, at the time of the resolution, whose uid is not the sender's.
C11_Family ==
    Resolved /\ handler.notify.kind = "Family" /\ ~ReadFailed =>
        handler.recipients = {u.uid : u \in FamilyRows} \ {Sender}

\* The family has one parent and two children, the parent sends, and the
\* recipients are the two children.
C11_Witness ==
    /\ handler.pc = "commit"
    /\ handler.notify.kind = "Family"
    /\ handler.state = State(parent)
    /\ Cardinality(FamilyRows) = 3
    /\ {u \in FamilyRows : u.role = "Parent"} = {parent}
    /\ Cardinality(handler.recipients) = 2
    /\ handler.recipients = {u.uid : u \in FamilyRows \ {parent}}

C13_MemberAndParents ==
    Resolved /\ handler.notify.kind = "MemberAndParents" /\ ~ReadFailed =>
        handler.recipients =
            {u.uid : u \in {x \in FamilyRows :
                               \/ x.uid = handler.notify.uid
                               \/ x.role = "Parent"}} \ {Sender}

\* A parent grants the request of a child: the child and the other parent
\* are the recipients, the sender and nobody else.
C13_Witness ==
    /\ handler.pc = "commit"
    /\ handler.notify.kind = "MemberAndParents"
    /\ handler.state = State(parent)
    /\ handler.notify.uid = child0.uid
    /\ handler.recipients = {child0.uid, parent2.uid}

\* C14: for Notify::Parents the recipients are exactly the parents of the
\* family, without the sender.
C14_Parents ==
    Resolved /\ handler.notify.kind = "Parents" /\ ~ReadFailed =>
        handler.recipients =
            {u.uid : u \in {x \in FamilyRows : x.role = "Parent"}} \ {Sender}

\* A child of a family with one parent and two children makes a request:
\* the parent is the one recipient.
C14_Witness ==
    /\ handler.pc = "commit"
    /\ handler.notify.kind = "Parents"
    /\ handler.state = State(child0)
    /\ FamilyRows = {parent, child0, child1}
    /\ handler.recipients = {parent.uid}

\* The topics of a set of uids.
Topics(uids) == {to_string(u) : u \in uids}

\* C15: when a member is removed, the recipients are resolved in the
\* transaction that has deleted the row: they are the members that remain,
\* without the sender, and FamilyMemberRemoved is never published on the
\* channel of the removed user.
C15_AfterMutation ==
    /\ Resolved /\ handler.op = "family/remove" =>
          /\ read(handler.tx, handler.notify.event.user) = {}
          /\ handler.notify.event.user \notin handler.recipients
          /\ ~ReadFailed =>
                handler.recipients = {u.uid : u \in FamilyRows} \ {Sender}
    /\ \A p \in BagToSet(published) :
          p.event.type = "FamilyMemberRemoved" =>
              /\ p.topic # to_string(p.event.user)
              /\ p.topic # to_string(p.event.by)
              /\ p.topic \in Topics(handler.recipients)

\* The removal is not yet committed and the event has been published to a
\* member that remains.
C15_Witness ==
    /\ handler.pc = "commit"
    /\ handler.op = "family/remove"
    /\ read(Users, handler.notify.event.user) # {}
    /\ published # EmptyBag

\* C16: when the read of the family fails, there are no recipients and
\* nothing is published; send returns to the handler all the same, with the
\* transaction as it was, and the commit of the handler persists it.
C16_ReadFails ==
    /\ [](ReadFailed => /\ handler.recipients = {}
                        /\ published = EmptyBag
                        /\ handler.pc \in {"commit", "done"})
    /\ [][/\ handler.pc = "users" /\ ReadFailed' =>
                /\ handler'.pc = "commit"
                /\ handler'.tx = handler.tx
                /\ response' = "none"
          /\ ReadFailed /\ handler.pc = "commit" /\ response' = "ok" =>
                /\ handler.op # "session/logout" => Users' = handler.tx
                /\ published' = EmptyBag
         ]_vars

\* The family could not be read, and the removal is committed.
C16_Witness ==
    /\ ReadFailed
    /\ response = "ok"
    /\ handler.op = "family/remove"
    /\ read(Users, handler.notify.event.user) = {}
    /\ published = EmptyBag

\* The warnings of send for a recipient that was not delivered to.
Undelivered ==
    {w \in warnings : w.msg \in {"failed to acquire notification channel",
                                 "failed to send notification"}}

\* C17: no step of send answers the request nor touches the transaction,
\* whichever call fails; send returns, and the handler comes to its commit,
\* which (when the database accepts it) persists the transaction and answers
\* successfully.
C17_NeverFails ==
    /\ [][/\ handler.pc \in {"users", "channel", "broadcast"} =>
                /\ handler'.pc \in {"channel", "broadcast", "commit"}
                /\ handler'.tx = handler.tx
                /\ response' = "none"
                /\ Users' = Users
          /\ handler.pc = "commit" /\ handler'.pc = "done"
                /\ handler.op # "session/logout" =>
                \/ response' = "ok" /\ Users' = handler.tx
                \/ response' = "error" /\ Users' = Users
         ]_vars
    /\ (handler.pc = "users") ~> (handler.pc = "commit")

\* Every publish of the send has failed, and the handler has committed the
\* removal and answered.
C17_Witness ==
    /\ response = "ok"
    /\ handler.op = "family/remove"
    /\ read(Users, handler.notify.event.user) = {}
    /\ handler.recipients # {}
    /\ published = EmptyBag
    /\ Topics(handler.recipients) = {w.topic : w \in Undelivered}
    /\ \A w \in Undelivered : w.msg = "failed to send notification"

\* C18: when send has returned, every recipient has been published to,
\* except those whose own channel or publish has failed.
C18_Independent ==
    handler.pc = "commit" =>
        \A u \in handler.recipients :
            \/ [topic |-> to_string(u), event |-> handler.notify.event]
                   \in BagToSet(published)
            \/ to_string(u) \in {w.topic : w \in Undelivered}

\* The events a send publishes when nothing fails.
Expected ==
    SetToBag({[topic |-> to_string(u), event |-> handler.notify.event] :
                 u \in handler.recipients})

\* C19: a send publishes its event at most once on the channel of each
\* recipient and on no other channel, and when no call of the backend has
\* failed it has published exactly once for each recipient.
C19_OncePerRecipient ==
    /\ published \sqsubseteq Expected
    /\ handler.pc \in {"commit", "done"} /\ Undelivered = {}
          /\ (handler.pc = "done" => response = "ok") =>
          /\ published = Expected
          /\ BagCardinality(published) = Cardinality(handler.recipients)

\* Three recipients have been published to, nothing has failed.
C19_Witness ==
    /\ handler.pc = "done"
    /\ response = "ok"
    /\ warnings = {}
    /\ Cardinality(handler.recipients) = 3
    /\ BagCardinality(published) = 3

\* C20: a connection never gets Logout as a text frame, and no event is
\* forwarded to it after the Close frame that Logout brings.
C20_NothingAfterLogout ==
    \A c \in Connections :
        LET frames == sockets[c].frames
        IN  \A j \in DOMAIN frames :
                /\ frames[j].kind = "Text" =>
                      frames[j].payload
                          # to_json(Event("Logout", NilUID, NilUID))
                /\ frames[j].kind = "Close" =>
                      \A k \in DOMAIN frames :
                          k > j => frames[k].kind # "Text"


(***************************************************************************)
(* Properties of the sessions, the sockets and the channels                *)
(***************************************************************************)
Logout == Event("Logout", NilUID, NilUID)

\* The number of Close frames written to a connection.
Closes(socket) ==
    Cardinality({i \in DOMAIN socket.frames : socket.frames[i].kind = "Close"})

\* The channel of the user whose session the request being handled carries.
OwnTopic == to_string(handler.state.user_uid)

\* The handler has had a broadcast accepted in this step.
Broadcasts == BagCardinality(published') > BagCardinality(published)

Erred(c) ==
    [msg |-> "failed to receive notification", topic |-> sockets[c].topic]
        \in warnings

\* The connection stays open in this step and takes the head of its stream.
Handles(c) ==
    /\ sockets[c].state = "open"
    /\ sockets'[c].state = "open"
    /\ sockets[c].stream # <<>>
    /\ Len(sockets'[c].stream) < Len(sockets[c].stream)

\* C22: an error item of the stream is logged and dropped, and nothing else
\* happens: the connection stays open, no frame is written and the items
\* behind it stay in the stream; an event that comes after an error is
\* forwarded as it would have been without the error.
C22_ErrorDropped ==
    [][\A c \in DOMAIN sockets :
          /\ ( /\ sockets[c].state = "open"
               /\ sockets[c].stream # <<>>
               /\ Head(sockets[c].stream) = StreamError
               /\ sockets'[c] # sockets[c]
               /\ Len(sockets'[c].stream) <= Len(sockets[c].stream) )
                => \/ /\ sockets'[c] = [sockets[c] EXCEPT !.stream = Tail(@)]
                      /\ Erred(c)'
                   \/ /\ sockets'[c].state = "stopped"
                      /\ sockets'[c].frames = sockets[c].frames
                      /\ UNCHANGED warnings
          /\ ( /\ Handles(c)
               /\ Erred(c)
               /\ Head(sockets[c].stream) \notin {StreamError, Logout} )
                => sockets'[c] =
                      [sockets[c] EXCEPT
                          !.stream = Tail(@),
                          !.frames = Append(@,
                              [kind |-> "Text",
                               payload |-> to_json(Head(sockets[c].stream))])]
      ]_vars

\* The connection has dropped an error item, is open, and has the event
\* that came behind the error still to forward.
C22_Witness ==
    /\ sockets[1].state = "open"
    /\ Erred(1)
    /\ sockets[1].frames = <<>>
    /\ sockets[1].stream = <<Event("RequestGranted", NilUID, parent.uid)>>


\* C23: the stream of a connection is a queue (what the channel brings is
\* put behind what is waiting, and the connection takes the head); every
\* event other than Logout that the connection takes becomes exactly one
\* Text frame with the JSON of that event, written behind the frames
\* written before; and frames are written at no other time, and never
\* removed or changed.
C23_InOrder ==
    [][\A c \in DOMAIN sockets :
          /\ Len(sockets'[c].stream) > Len(sockets[c].stream)
                => \E item \in Events \cup {StreamError} :
                      sockets'[c] = [sockets[c] EXCEPT !.stream =
                                        Append(@, item)]
          /\ ( /\ Handles(c)
               /\ Head(sockets[c].stream) \notin {StreamError, Logout} )
                => sockets'[c] =
                      [sockets[c] EXCEPT
                          !.stream = Tail(@),
                          !.frames = Append(@,
                              [kind |-> "Text",
                               payload |-> to_json(Head(sockets[c].stream))])]
          /\ sockets'[c].frames # sockets[c].frames
                => /\ Handles(c)
                   /\ sockets'[c].stream = Tail(sockets[c].stream)
                   /\ Head(sockets[c].stream) # StreamError
                   /\ Len(sockets'[c].frames) = Len(sockets[c].frames) + 1
                   /\ SubSeq(sockets'[c].frames, 1, Len(sockets[c].frames))
                         = sockets[c].frames
      ]_vars

\* Three Ping broadcasts have become three {"type":"Ping"} frames.
C23_Witness ==
    /\ sockets[1].state = "open"
    /\ sockets[1].stream = <<>>
    /\ sockets[1].frames =
          [i \in 1..3 |-> [kind |-> "Text", payload |-> "{\"type\":\"Ping\"}"]]


\* The items a listener of a channel is to get: one Ok item for every send
\* on that channel that was served after the listen call returned, in the
\* order of the sends.
Since(name, since) ==
    LET later == SelectSeq([k \in 1..Len(sent) |-> k],
                           LAMBDA k : k > since /\ sent[k].channel = name)
    IN  [j \in DOMAIN later |-> OkItem(sent[later[j]].event)]

\* What a stream has yielded and what it will yield for the payloads it
\* holds.
Stream(l) ==
    streams[l].yielded
        \o [j \in DOMAIN streams[l].inbox |-> from_slice(streams[l].inbox[j])]

\* C24: the stream of every Redis listener consists of the events sent on
\* its channel after its listen call returned, each once and in the order
\* of the sends, whatever other listeners there are; it has no event sent
\* before, and none of another channel.
C24_Redis ==
    \A l \in Listeners :
        streams[l].state = "open"
            => Stream(l) = Since(streams[l].channel, streams[l].since)

\* Three events were sent on the channel "test": the listener that was
\* there before the first has got the three, the one that came after the
\* first has got the other two.
C24_Witness ==
    /\ notifier.driver = "redis"
    /\ Len(sent) = 3
    /\ \A k \in 1..3 : sent[k].channel = "test"
    /\ sent[1].event # sent[2].event
    /\ \A l \in Listeners :
          /\ streams[l].state = "open"
          /\ streams[l].channel = "test"
          /\ streams[l].inbox = <<>>
    /\ streams[1].since = 0
    /\ streams[2].since = 1
    /\ streams[1].yielded = [k \in 1..3 |-> OkItem(sent[k].event)]
    /\ streams[2].yielded = [k \in 1..2 |-> OkItem(sent[k + 1].event)]


\* C25: the stream of every listen call of the fixture consists of the
\* events the fixture was made with, each as an Ok item and in their order,
\* whatever the channel and whatever was sent; send delivers nothing and
\* returns a Driver error.
C25_Dummy ==
    /\ \A l \in Listeners :
          streams[l].state = "open"
              => streams[l].yielded \o streams[l].inbox
                    = [i \in DOMAIN notifier.events |->
                          [ok |-> TRUE, event |-> notifier.events[i],
                           error |-> ""]]
    /\ sent = <<>>
    /\ result.call = "send" => result.value = "Driver"

\* A fixture with three events: two listeners of different channels have
\* both got the three, and a send has just failed.
C25_Witness ==
    /\ notifier.driver = "dummy"
    /\ Len(notifier.events) = 3
    /\ notifier.events[1] # notifier.events[2]
    /\ result = Returned("send", "Driver")
    /\ streams[1].channel # streams[2].channel
    /\ \A l \in Listeners :
          /\ streams[l].state = "open"
          /\ streams[l].inbox = <<>>
          /\ Len(streams[l].yielded) = 3


\* C26: a connection is subscribed to one channel, that of the user of the
\* session its request carried, from the time it is opened; a request
\* without a session is answered with `unauthorized` and opens nothing; and
\* what a handler broadcasts to a user changes no connection of a session
\* of another user.
C26_OwnChannel ==
    [][/\ \A c \in DOMAIN sockets :
             IF sockets'[c].state = "none" THEN sockets'[c] = NoSocket
             ELSE /\ sockets'[c].session \in Sessions
                  /\ sockets'[c].topic =
                        encode_lower(sockets'[c].session.user_uid, 32)
                  /\ sockets[c].state # "none"
                        => /\ sockets'[c].session = sockets[c].session
                           /\ sockets'[c].topic = sockets[c].topic
       /\ (response' = "unauthorized" /\ response # "unauthorized")
             => sockets' = sockets
       /\ Broadcasts
             => \A c \in DOMAIN sockets :
                   sockets'[c] # sockets[c]
                       => sockets[c].session.user_uid = handler.uid
      ]_vars

\* The parent has logged out: the connection of the parent has got the
\* event, the connection of the child has got nothing, and a request
\* without a session has been turned away.
C26_Witness ==
    /\ handler.op = "session/logout"
    /\ handler.state = State(parent)
    /\ BagCardinality(published) = 1
    /\ response = "unauthorized"
    /\ sockets[1].state = "open"
    /\ sockets[1].session = State(parent)
    /\ sockets[1].stream = <<Logout>>
    /\ sockets[2].state = "open"
    /\ sockets[2].session = State(child0)
    /\ sockets[2].stream = <<>>
    /\ sockets[2].frames = <<>>


Due(timestamp) ==
    {a \in BagToSet(Allowances) : a.schedule = weekday(timestamp)}

\* C28: a run of the payer for a timestamp adds to its transaction, for
\* every allowance whose schedule is the weekday of the timestamp, one row
\* of type allowance with the user and the amount of the allowance and the
\* timestamp as its time, and adds no other row.
C28_PayerRows ==
    [][\A k \in DOMAIN cycles[1] :
          ( /\ k \in DOMAIN cycles'[1]
            /\ cycles[1][k].pc = "task"
            /\ cycles'[1][k].pc = "update"
            /\ tasks[cycles[1][k].i].body = "Payer" )
             => LET timestamp == cycles[1][k].timestamp
                    before    == cycles[1][k].wTx
                    after     == cycles'[1][k].wTx
                    rows      == BagToSet(after)
                IN  /\ before \sqsubseteq after
                    /\ BagCardinality(after) - BagCardinality(before)
                          = Cardinality(Due(timestamp))
                    /\ \A row \in rows :
                          /\ CopiesIn(row, after) - CopiesIn(row, before)
                                = Cardinality(
                                    {a \in Due(timestamp) :
                                        /\ a.user_uid = row.user_uid
                                        /\ a.amount = row.amount
                                        /\ timestamp = row.time
                                        /\ row.transaction_type = "allowance"})
      ]_vars

\* The payer has run on a Thursday over two allowances of Thursday, which
\* have the same user and amount, and two of other days: its transaction
\* holds two rows, both of that user.
C28_Witness ==
    /\ BagToSet(Allowances) = AllowanceRows
    /\ Len(cycles[1]) = 1
    /\ cycles[1][1].pc = "update"
    /\ weekday(cycles[1][1].timestamp) = "Thu"
    /\ BagCardinality(cycles[1][1].wTx) = 2
    /\ BagToSet(cycles[1][1].wTx) =
          {[transaction_type |-> "allowance", user_uid |-> "u1",
            description |-> "", amount |-> 42,
            time |-> cycles[1][1].timestamp]}

(***************************************************************************)
(* Properties of the handlers that write to several tables                 *)
(***************************************************************************)
\* The step is the one in which the handler answers that it succeeded.
Answers == response' = "ok" /\ response # "ok"

\* The request named by the grant being handled is one of the user it
\* names.
Candidates ==
    {r \in RequestRows : /\ r.uid = handler.request_uid
                         /\ r.user_uid = handler.user_uid}

\* The session of the grant being handled is one of a parent of the family
\* of the user it names.
ParentOfOwner ==
    /\ handler.state.role = "Parent"
    /\ \E u \in Users : /\ u.uid = handler.user_uid
                        /\ u.family_uid = handler.state.family_uid

\* C29: a grant changes the committed tables Requests and Transactions in
\* one step only, the one in which it answers that it succeeded: there the
\* session is a parent of the family of the request's owner, the request is
\* the named user's, the request is deleted and Transactions gains exactly
\* one row, of type request, for the owner, of amount -(cost if given,
\* otherwise the request's amount).  In every other step of a grant both
\* tables stay as they are, and a grant by a session that is not a parent
\* of the owner's family, or of a request that is not the named user's,
\* leaves execute with an error.
C29_GrantAtomic ==
    [][handler.op = "request/grant" =>
          /\ Answers =>
                /\ ParentOfOwner
                /\ \E r \in Candidates :
                      /\ RequestRows' = RequestRows \ {r}
                      /\ Transactions' = Transactions (+) SetToBag(
                            {[transaction_type |-> "request",
                              user_uid |-> r.user_uid,
                              description |-> r.name,
                              amount |-> -(IF handler.cost = None
                                           THEN r.amount
                                           ELSE handler.cost[1]),
                              time |-> clock]})
          /\ ~Answers => UNCHANGED <<RequestRows, Transactions>>
          /\ /\ handler.pc = "execute"
             /\ handler'.pc # "execute"
             /\ ~ParentOfOwner \/ Candidates = {}
             => response' = "error"
      ]_vars

\* The parent has granted the first child's request at a cost of 5: the
\* request is gone and the child has a transaction of -5.
C29_Witness ==
    /\ handler.op = "request/grant"
    /\ handler.state = State(parent)
    /\ handler.cost = Some(5)
    /\ response = "ok"
    /\ RequestRows = {request0}
    /\ Transactions = SetToBag(
          {[transaction_type |-> "request", user_uid |-> child0.uid,
            description |-> "name1", amount |-> -5, time |-> 0]})

\* The invitation the accept being handled names, if there is one.
Named == {i \in Invitations : i.uid = handler.invitation_uid}

\* A user of the invitation's family has the invitation's name.
Taken(i) ==
    \E u \in Users : u.family_uid = i.family_uid /\ u.name = i.name

\* The allowance an accept of the invitation creates for its new user: one
\* for a child whose invitation has an amount and a schedule, none
\* otherwise.
Promised(i) ==
    IF /\ i.role = "Child"
       /\ i.allowance_amount # None
       /\ i.allowance_schedule # None
    THEN SetToBag({Allowance(SecondUID(handler.new_uid), handler.new_uid,
                             i.allowance_amount[1],
                             i.allowance_schedule[1])})
    ELSE EmptyBag

\* The handler leaves execute in this step.
Executed == handler.pc = "execute" /\ handler'.pc # "execute"

LowNibbleFirst(key, string) ==
    /\ Len(string) = 2 * SIZE
    /\ \A i \in 1..SIZE :
          /\ char(string, 2 * i - 1) = char(DIGITS, (key[i] % 16) + 1)
          /\ char(string, 2 * i) = char(DIGITS, (key[i] \div 16) + 1)

\* C31: the string a Secret is converted into has 2 * SIZE hexadecimal
\* characters, every byte written low nibble first, and parsing it gives
\* the key back.
C31_RoundTrip ==
    /\ secret.pc \in {"written", "read back"} =>
          LowNibbleFirst(secret.key, secret.source)
    /\ secret.pc = "read back" => secret.result = Key(secret.key)

\* The string is no Secret: it has a character that is no hexadecimal
\* digit, or not 2 * SIZE characters.
Invalid(source) ==
    \/ \E i \in 1..Len(source) : to_digit(char(source, i)) = None
    \/ Len(source) # 2 * SIZE

\* C32: try_from returns an error for every invalid string.
C32_ErrorForInvalid ==
    secret.pc = "read" /\ Invalid(secret.source) =>
        secret.result.kind = "Err"

(***************************************************************************)
(* Properties of the period labels                                         *)
(***************************************************************************)
\* The rows of ScheduledTasks that are committed or written by a run call
\* in progress: each holds the label and the timestamp of its run.
Recorded ==
    BagToSet(ScheduledTasks)
        \cup UNION {BagToSet(cycles[s[1]][s[2]].wST) : s \in Slots}

\* C33: the label is a function of the task and of the timestamp passed to
\* run: two rows of one task with the same timestamp have the same label,
\* for Custom tasks as well as Daily ones.
C33_LabelOfTimestamp ==
    \A x \in Recorded : \A y \in Recorded :
        x.task = y.task /\ x.time = y.time => x.last_run = y.last_run

\* The same for the Daily tasks alone.
DailyLabelOfTimestamp ==
    \A x \in Recorded : \A y \in Recorded :
        /\ x.task = y.task
        /\ x.time = y.time
        /\ \E j \in DOMAIN tasks :
              tasks[j].name = x.task /\ tasks[j].kind = "Daily"
        => x.last_run = y.last_run

\* The calendar date of a timestamp as YYYY-MM-DD.
Date(timestamp) ==
    LET c == CivilFromDays(DayNumber(timestamp))
    IN  ZeroPad(c.year, 4) \o "-" \o ZeroPad(c.month, 2)
            \o "-" \o ZeroPad(c.day, 2)

\* The rows recorded for a Daily task.
DailyRows(j) == {x \in Recorded : x.task = tasks[j].name}

\* C34: the label of a Daily task is the date of the timestamp, ten
\* characters long; two rows of the task have the same label exactly when
\* their timestamps are of the same day; and a check of the task finds it
\* due exactly when no committed row of the task is of the day of the
\* timestamp of the run.
C34_DailyLabel ==
    [][\A j \in DOMAIN tasks : tasks[j].kind = "Daily" =>
          /\ \A x \in DailyRows(j) :
                /\ x.last_run = Date(x.time)
                /\ Len(x.last_run) = 10
                /\ \A y \in DailyRows(j) :
                      x.last_run = y.last_run
                          <=> DayNumber(x.time) = DayNumber(y.time)
          /\ \A s \in Slots :
                LET c == cycles[s[1]][s[2]]
                IN  /\ c.pc = "check"
                    /\ c.i = j
                    /\ s[2] \in DOMAIN cycles'[s[1]]
                    /\ cycles'[s[1]][s[2]] # c
                    /\ cycles'[s[1]][s[2]].errors = c.errors
                    => (cycles'[s[1]][s[2]].pc = "task"
                           <=> ~\E x \in BagToSet(ScheduledTasks) :
                                  /\ x.task = tasks[j].name
                                  /\ DayNumber(x.time)
                                         = DayNumber(c.timestamp))
      ]_vars

\* A daily task has a committed row of the first day and one of the
\* second, with different labels, and has none of the half day between.
C34_Witness ==
    /\ \E j \in DOMAIN tasks :
          /\ tasks[j].kind = "Daily"
          /\ {x.last_run : x \in {y \in BagToSet(ScheduledTasks) :
                                     y.task = tasks[j].name}}
                = {"1970-01-01", "1970-01-02"}
    /\ clock = 2 * TickSecs

(***************************************************************************)
(* Properties of the order of publishing and committing                    *)
(***************************************************************************)
\* The handler has answered with an error: its transaction was rolled back.
RolledBack == handler.pc = "done" /\ response # "ok"

\* C35: an event that listeners have got belongs to a mutation that was
\* committed: a handler whose commit has failed, or that has answered with
\* any other error, has published nothing.
C35_PublishedIsCommitted == RolledBack => published = EmptyBag

\* execute is about to return an error of authorization or validation.
Refusing == handler.pc = "execute" /\ ~execute(handler).ok

\* C36: when execute refuses the request, the handler answers with the
\* error at once: its next step ends it, nothing has been or is published,
\* no table and no connection is written, and the transaction is dropped.
C36_RefusedIsSilent ==
    [][Refusing =>
          /\ handler'.pc = "done"
          /\ handler'.tx = {}
          /\ handler'.db = NoTables
          /\ response' \in {status(execute(handler)), "error"}
          /\ response' # "ok"
          /\ published = EmptyBag
          /\ published' = EmptyBag
          /\ Users' = Users
          /\ UNCHANGED <<dvars, Allowances, Transactions, sockets>>
      ]_vars

\* A child has asked for the removal of a member of its family, which
\* execute refuses: the handler has answered with the error.
C36_Witness ==
    /\ RolledBack
    /\ handler.op = "family/remove"
    /\ handler.state.role = "Child"
    /\ read(Users, handler.user_uid) # {}
    /\ ~execute([handler EXCEPT !.tx = Users, !.db = Tables]).ok
    /\ published = EmptyBag

(***************************************************************************)
(* Properties of the isolation of families                                 *)
(***************************************************************************)
\* The family of the acting user: the one of its session, or, for
\* invitation/accept, the one of the user the request has created.
ActingFamily ==
    IF handler.op = "invitation/accept"
    THEN {u.family_uid : u \in read(handler.tx, handler.new_uid)}
    ELSE {handler.state.family_uid}

\* The users of the transaction that listen on a topic.
Subscribers(topic) == {u \in handler.tx : to_string(u.uid) = topic}

\* C37: for the targets Family, Parents and MemberAndParents every
\* recipient is a row of the named family when the recipients are resolved;
\* the named family is the acting user's own, and no event is published on
\* the channel of a user of another family.
C37_WithinFamily ==
    Resolved /\ handler.notify.kind \in {"Family", "Parents",
                                         "MemberAndParents"} =>
        /\ handler.recipients \subseteq {u.uid : u \in FamilyRows}
        /\ ActingFamily = {handler.notify.family}
        /\ \A p \in BagToSet(published) :
              /\ Subscribers(p.topic) # {}
              /\ \A u \in Subscribers(p.topic) :
                    {u.family_uid} = ActingFamily

\* An event of the first family has been published to two of its members
\* while the table holds a user of the other family.
C37_Witness ==
    /\ handler.pc = "commit"
    /\ handler.notify.kind \in {"Family", "Parents", "MemberAndParents"}
    /\ handler.notify.family = family
    /\ \E u \in handler.tx : u.family_uid = other_family
    /\ BagCardinality(published) >= 2

(***************************************************************************)
(* Properties of the payments of allowances                                *)
(***************************************************************************)
\* The committed transactions of type allowance of a user, of an amount,
\* with a time on the calendar day `day`.
PaidOn(user_uid, amount, day) ==
    Where(Transactions,
          LAMBDA x : /\ x.transaction_type = "allowance"
                     /\ x.user_uid = user_uid
                     /\ x.amount = amount
                     /\ DayNumber(x.time) = day)

\* The allowances of a user, of an amount.
Granted(user_uid, amount) ==
    Where(Allowances,
          LAMBDA a : a.user_uid = user_uid /\ a.amount = amount)

\* C38: whatever the wake cycles, the crashes and restarts and the two
\* instances on the database have done, no allowance has more than one
\* committed transaction of type allowance on one calendar day.
C38_OncePerDay ==
    \A a \in BagToSet(Allowances) :
        \A timestamp \in Timestamps :
            BagCardinality(PaidOn(a.user_uid, a.amount,
                                  DayNumber(timestamp)))
                <= BagCardinality(Granted(a.user_uid, a.amount))

\* Two instances share the database, one has crashed, the clock is at the
\* second day, the payer's run of the first day is the one of the second
\* wake-up of that day, and a payment of each day is committed.
C38_Witness ==
    /\ clock = 2 * TickSecs
    /\ restarts > 0
    /\ \A r \in Instances : actor[r] # "absent"
    /\ \E x, y \in BagToSet(Transactions) :
          /\ DayNumber(x.time) = 0
          /\ DayNumber(y.time) = 1
    /\ \E m \in BagToSet(ScheduledTasks) :
          m.task = PayerName /\ m.time = TickSecs

\* The allowance transactions a step has committed.
NewlyPaid ==
    {x \in BagToSet(Transactions') :
        /\ x.transaction_type = "allowance"
        /\ CopiesIn(x, Transactions') > CopiesIn(x, Transactions)}

\* C39: a wake cycle takes the time of its wake-up as its timestamp, and the
\* payments a step commits are those of a cycle of the payer at its commit:
\* they carry the timestamp of that cycle and belong to allowances of the
\* weekday of that timestamp.  No cycle pays for a day other than the one
\* it woke up on: a day without a successful cycle stays unpaid.
C39_NoBackfill ==
    [][/\ \A r \in Instances :
            Len(cycles'[r]) > Len(cycles[r]) =>
                cycles'[r][Len(cycles'[r])].timestamp = clock
       /\ \A s \in Slots : cycles[s[1]][s[2]].timestamp <= clock
       /\ \A x \in NewlyPaid :
            \E s \in Slots :
                LET c == cycles[s[1]][s[2]]
                IN  /\ c.pc = "commit"
                    /\ tasks[c.i].body = "Payer"
                    /\ c.timestamp = x.time
                    /\ \E a \in BagToSet(Allowances) :
                          /\ a.schedule = weekday(c.timestamp)
                          /\ a.user_uid = x.user_uid
                          /\ a.amount = x.amount
       /\ \A x \in BagToSet(Transactions) :
            x.transaction_type = "allowance" =>
                /\ x.time <= clock
                /\ \E m \in BagToSet(ScheduledTasks) :
                      m.task = PayerName /\ m.time = x.time
      ]_vars

\* The runner was down or failing on Thursday: on Friday the allowance of
\* Friday is paid and the one of Thursday is not.
C39_Witness ==
    /\ clock = 2 * TickSecs
    /\ restarts > 0
    /\ {DayNumber(m.time) : m \in {x \in BagToSet(ScheduledTasks) :
                                       x.task = PayerName}} = {1}
    /\ BagCardinality(PaidOn("u2", 10, 1)) = 1
    /\ \A timestamp \in Timestamps :
          PaidOn("u1", 42, DayNumber(timestamp)) = EmptyBag

(***************************************************************************)
(* Properties of the invitations                                           *)
(***************************************************************************)
\* The email of the invitation of the request being handled was accepted
\* by the email sender.
Mailed == \E j \in DOMAIN outbox : outbox[j] = Mail(handler)

\* The invitation of the request being handled is a committed row.
Persisted == \E i \in Invitations : i.uid = handler.new_uid

\* C40: the handler of invitation/create sends the email before it
\* publishes FamilyMemberInvited and before it commits; when the email
\* step fails the handler answers with the error, no invitation is
\* persisted and nothing is published; the invitation is a committed row
\* only when the email was sent and send has returned.
C40_EmailFirst ==
    [][handler.op = "invitation/create" =>
          /\ published' # published => Mailed
          /\ Invitations' # Invitations =>
                /\ Mailed
                /\ SendReturned(handler)
                /\ ~Persisted
                /\ Invitations' = handler.db.Invitations
                /\ response' = "ok"
          /\ Persisted => Mailed /\ handler.pc = "done" /\ response = "ok"
          /\ handler.pc = "email" /\ handler' # handler
                /\ outbox' = outbox =>
                /\ handler'.pc = "done"
                /\ response' = "error"
                /\ published = EmptyBag
                /\ published' = EmptyBag
                /\ UNCHANGED <<dvars, Users, sockets>>
          /\ handler.pc \in {"execute", "email"} =>
                ~Mailed /\ published = EmptyBag
      ]_vars

\* The parent has invited a child: the email is in the outbox, the event
\* was published to the other members and the invitation is committed.
C40_Witness ==
    /\ handler.op = "invitation/create"
    /\ handler.pc = "done"
    /\ response = "ok"
    /\ Mailed
    /\ Persisted
    /\ BagCardinality(published) = 2
    /\ \A p \in BagToSet(published) :
          p.event.type = "FamilyMemberInvited"

====
